---- MODULE Spec2Model ----
(***************************************************************************)
(* Model of workflow_health_check.py: the Report accumulator, the          *)
(* three-colour depth-first cycle detector, and the plan and issues        *)
(* validators that feed it.                                                *)
(***************************************************************************)
EXTENDS Integers, Sequences, FiniteSets, TLC

VARIABLES
    pc,          \* position of the running call
    caller,      \* who called detect_cycle: "direct", "plan" or "issues"
    dc_nodes,    \* detect_cycle: the nodes argument, in iteration order
    dc_edges,    \* detect_cycle: the edges argument (node -> list of nodes)
    state,       \* detect_cycle: state dict, node -> 0 unseen / 1 visiting / 2 done
    parent,      \* detect_cycle: parent dict, node -> node it was entered from
    stack,       \* detect_cycle: the dfs recursion frames, innermost last
    dc_i,        \* detect_cycle: position of the outer for loop over nodes
    cycle,       \* detect_cycle: return value, NoCycle (None) or the chain
    entered,     \* detect_cycle: how many times dfs was entered per node
    file,        \* the source file handed to a validator: its status and lines
    report,      \* Report.findings of the running validator call
    outcome,     \* "running", "returned" (a Report came back) or "raised"
    rows,        \* check_issues: the (line number, parsed object) rows
    issue_map,   \* check_issues: issue_map, an insertion-ordered dict
    run,         \* 1 in the first call of a validator on the document, 2 in the second
    first_report,\* the findings the first call left
    first_outcome,\* how the first call ended: "returned" or "raised"
    set_order,   \* check_plan: the order in which this process iterates task_ids
    cli          \* the command line run: its arguments, reports, counts and exit code

dcVars == <<dc_nodes, dc_edges, state, parent, stack, dc_i, cycle, entered>>
ciVars == <<rows, issue_map>>
cpVars == <<run, first_report, first_outcome, set_order, cli>>
valVars == <<file, report, outcome, ciVars, cpVars>>
vars == <<pc, caller, dcVars, valVars>>

----------------------------------------------------------------------------
(* Bounds of the explored inputs. *)

NumNodes == 3
MaxEdges == 3
\* issue rows in a snapshot, and depends_on entries in a whole snapshot
MaxIssues == 2
MaxDeps == 2

Node(i) == ToString(i)

Universe == {Node(i) : i \in 1..NumNodes}

----------------------------------------------------------------------------
(* Small helpers over sequences. *)

Range(s) == {s[i] : i \in DOMAIN s}

RECURSIVE Reverse(_)
Reverse(s) == IF s = <<>> THEN <<>> ELSE Append(Reverse(Tail(s)), Head(s))

RECURSIVE SelectSeqBy(_, _, _)
\* the targets of the pairs of ps whose source is n, in order
SelectSeqBy(ps, n, i) ==
    IF i > Len(ps) THEN <<>>
    ELSE IF ps[i][1] = n THEN <<ps[i][2]>> \o SelectSeqBy(ps, n, i + 1)
    ELSE SelectSeqBy(ps, n, i + 1)

----------------------------------------------------------------------------
(* Finding and Report *)

\* Finding(severity, message, location): the message is kept as its fixed
\* text and the values formatted into it; the location is the line number
\* after the path, 0 when the location is the path alone
Finding(severity, message, arg, line) ==
    [severity |-> severity, message |-> message, arg |-> arg, line |-> line]

\* Report.add that files every finding as an ERROR
AddAlwaysError(rep, severity, message, arg, line) ==
    Append(rep, Finding("ERROR", message, arg, line))

\* Report.add that puts the finding in front
AddInFront(rep, severity, message, arg, line) ==
    <<Finding(severity, message, arg, line)>> \o rep

\* Report.add
Add(rep, severity, message, arg, line) == Append(rep, Finding(severity, message, arg, line))

\* Report.error / Report.warn / Report.info, as the finding they append
ErrorF(message, arg, line) == Finding("ERROR", message, arg, line)
WarnF(message, arg, line) == Finding("WARN", message, arg, line)
InfoF(message, arg, line) == Finding("INFO", message, arg, line)

RECURSIVE CountSeverity(_, _)
CountSeverity(rep, sev) ==
    IF rep = <<>> THEN 0
    ELSE (IF Head(rep).severity = sev THEN 1 ELSE 0) + CountSeverity(Tail(rep), sev)

\* Report.errors / Report.warnings
Errors(rep) == CountSeverity(rep, "ERROR")
Warnings(rep) == CountSeverity(rep, "WARN")

----------------------------------------------------------------------------
(* JSON values as json.loads returns them *)

JStr(s) == [k |-> "str", s |-> s]
JInt(n) == [k |-> "int", n |-> n]
JFloat == [k |-> "float"]
JBool(b) == [k |-> "bool", b |-> b]
JNull == [k |-> "null"]
JArr(a) == [k |-> "arr", a |-> a]
JObj(o) == [k |-> "obj", o |-> o]

\* dict.get(key): None when the key is absent
Get(o, key) == IF key \in DOMAIN o THEN o[key] ELSE JNull

\* dict.get(key, "")
GetOrEmpty(o, key) == IF key \in DOMAIN o THEN o[key] ELSE JStr("")

Remove(o, key) == [x \in (DOMAIN o) \ {key} |-> o[x]]

\* str(value), as formatted into a message
Repr(v) ==
    CASE v.k = "str" -> v.s
      [] v.k = "int" -> ToString(v.n)
      [] v.k = "float" -> "1.5"
      [] v.k = "bool" -> IF v.b THEN "True" ELSE "False"
      [] v.k = "null" -> "None"
      [] v.k = "arr" -> "[...]"
      [] v.k = "obj" -> "{...}"

\* not s.strip(), over the strings of the explored inputs: none of them has
\* white space around other characters
IsBlank(s) == s \in {"", " "}

\* isinstance(v, str) and v.strip()
IsNonEmptyStr(v) == v.k = "str" /\ ~IsBlank(v.s)

\* hash(v) raises TypeError: lists and dicts are unhashable
Unhashable(v) == v.k \in {"arr", "obj"}

\* a file that was never handed over
NoFile == [status |-> "none", lines |-> <<>>]

\* no command line run is in progress
NoCli == [stage |-> "none"]

\* an empty insertion-ordered dict: its keys in insertion order, its values
EmptyMap == [keys |-> <<>>, val |-> [x \in {} |-> 0]]

\* issue_map[key] = value: a new key goes last, a known key keeps its place
MapSet(m, key, value) ==
    [keys |-> IF key \in DOMAIN m.val THEN m.keys ELSE Append(m.keys, key),
     val |-> [x \in (DOMAIN m.val) \cup {key} |-> IF x = key THEN value ELSE m.val[x]]]

\* the paths that exist under the project root
ExistingPaths == {"docs/plan.md", "src/a.py"}

\* resolve_under(project_root, path).exists()
PathExists(path) == path \in ExistingPaths

----------------------------------------------------------------------------
(* detect_cycle *)

\* None
NoCycle == <<>>

\* state.get with DONE as the default: a node that is not in N is never searched
StateGetAbsentDone(st, n) == IF n \in DOMAIN st THEN st[n] ELSE 2

\* state.get(n, 0)
StateGet(st, n) == IF n \in DOMAIN st THEN st[n] ELSE 0

\* edges.get(node, [])
EdgesGet(ed, n) == IF n \in DOMAIN ed THEN ed[n] ELSE <<>>

\* state[n] = v / parent[n] = v on a dict
DictSet(d, k, v) == [x \in (DOMAIN d) \cup {k} |-> IF x = k THEN v ELSE d[x]]

EmptyDict == [x \in {} |-> 0]

RECURSIVE ChainFrom(_, _, _)
\* the while loop of dfs: cur, parent[cur], ... up to (not including) nxt,
\* or up to the first node that has no parent entry
ChainFrom(cur, nxt, par) ==
    IF cur # nxt /\ cur \in DOMAIN par
    THEN <<cur>> \o ChainFrom(par[cur], nxt, par)
    ELSE <<>>

\* BuildChain without the closing chain.append(nxt)
BuildChainOpen(node, nxt, par) ==
    Reverse(<<nxt>> \o ChainFrom(node, nxt, par))

\* BuildChain with the walk along parent taken twice round the cycle
BuildChainTwice(node, nxt, par) ==
    Reverse(<<nxt>> \o ChainFrom(node, nxt, par) \o <<nxt>> \o ChainFrom(node, nxt, par) \o <<nxt>>)

\* chain = [nxt] + walk; chain.append(nxt); chain.reverse()
BuildChain(node, nxt, par) ==
    Reverse(<<nxt>> \o ChainFrom(node, nxt, par) \o <<nxt>>)

\* state = {n: 0 for n in nodes}; parent = {}
DcBegin(nodes, edges) ==
    /\ dc_nodes' = nodes
    /\ dc_edges' = edges
    /\ state' = [n \in Range(nodes) |-> 0]
    /\ parent' = EmptyDict
    /\ stack' = <<>>
    /\ dc_i' = 1
    /\ cycle' = NoCycle
    /\ entered' = EmptyDict

\* entering dfs(node): state[node] = 1, a new frame at its first edge
Enter(node) ==
    /\ state' = DictSet(state, node, 1)
    /\ entered' = DictSet(entered, node, StateGet(entered, node) + 1)

Top == stack[Len(stack)]

\* for node in nodes: if state[node] == 0: cycle = dfs(node)
DcOuterEnter ==
    /\ pc = "dfs" /\ stack = <<>> /\ dc_i <= Len(dc_nodes)
    /\ state[dc_nodes[dc_i]] = 0
    /\ Enter(dc_nodes[dc_i])
    /\ stack' = <<[node |-> dc_nodes[dc_i], ei |-> 1]>>
    /\ UNCHANGED <<pc, caller, dc_nodes, dc_edges, parent, dc_i, cycle, valVars>>

\* for node in nodes: state[node] != 0, next node
DcOuterSkip ==
    /\ pc = "dfs" /\ stack = <<>> /\ dc_i <= Len(dc_nodes)
    /\ state[dc_nodes[dc_i]] # 0
    /\ dc_i' = dc_i + 1
    /\ UNCHANGED <<pc, caller, dc_nodes, dc_edges, state, parent, stack, cycle, entered, valVars>>

HasEdge == pc = "dfs" /\ stack # <<>> /\ Top.ei <= Len(EdgesGet(dc_edges, Top.node))

\* Nxt with the edge list taken from its end
NxtFromEnd ==
    EdgesGet(dc_edges, Top.node)[Len(EdgesGet(dc_edges, Top.node)) + 1 - Top.ei]

Nxt == EdgesGet(dc_edges, Top.node)[Top.ei]

\* nxt_state == 0: parent[nxt] = node; dfs(nxt)
DcEdgeUnseen ==
    /\ HasEdge
    /\ StateGet(state, Nxt) = 0
    /\ parent' = DictSet(parent, Nxt, Top.node)
    /\ Enter(Nxt)
    /\ stack' = Append([stack EXCEPT ![Len(stack)].ei = @ + 1], [node |-> Nxt, ei |-> 1])
    /\ UNCHANGED <<pc, caller, dc_nodes, dc_edges, dc_i, cycle, valVars>>

\* nxt_state == 1: build the chain and return it through every frame
DcEdgeVisiting ==
    /\ HasEdge
    /\ StateGet(state, Nxt) = 1
    /\ cycle' = BuildChain(Top.node, Nxt, parent)
    /\ stack' = <<>>
    /\ pc' = "dfs_done"
    /\ UNCHANGED <<caller, dc_nodes, dc_edges, state, parent, dc_i, entered, valVars>>

\* DcEdgeDone taking a DONE node for an UNSEEN one: dfs is entered again
DcEdgeDoneReenters ==
    /\ HasEdge
    /\ StateGet(state, Nxt) = 2
    /\ parent' = DictSet(parent, Nxt, Top.node)
    /\ Enter(Nxt)
    /\ stack' = Append([stack EXCEPT ![Len(stack)].ei = @ + 1], [node |-> Nxt, ei |-> 1])
    /\ UNCHANGED <<pc, caller, dc_nodes, dc_edges, dc_i, cycle, valVars>>

\* nxt_state == 2: neither branch, next edge
DcEdgeDone ==
    /\ HasEdge
    /\ StateGet(state, Nxt) = 2
    /\ stack' = [stack EXCEPT ![Len(stack)].ei = @ + 1]
    /\ UNCHANGED <<pc, caller, dc_nodes, dc_edges, state, parent, dc_i, cycle, entered, valVars>>

\* DcReturn without state[node] = 2: the node stays VISITING
DcReturnStaysVisiting ==
    /\ pc = "dfs" /\ stack # <<>> /\ Top.ei > Len(EdgesGet(dc_edges, Top.node))
    /\ stack' = SubSeq(stack, 1, Len(stack) - 1)
    /\ dc_i' = IF Len(stack) = 1 THEN dc_i + 1 ELSE dc_i
    /\ UNCHANGED <<pc, caller, dc_nodes, dc_edges, state, parent, cycle, entered, valVars>>

\* the for loop of dfs is exhausted: state[node] = 2; return None
DcReturn ==
    /\ pc = "dfs" /\ stack # <<>> /\ Top.ei > Len(EdgesGet(dc_edges, Top.node))
    /\ state' = DictSet(state, Top.node, 2)
    /\ stack' = SubSeq(stack, 1, Len(stack) - 1)
    /\ dc_i' = IF Len(stack) = 1 THEN dc_i + 1 ELSE dc_i
    /\ UNCHANGED <<pc, caller, dc_nodes, dc_edges, parent, cycle, entered, valVars>>

\* the outer loop is exhausted: return None
DcFinish ==
    /\ pc = "dfs" /\ stack = <<>> /\ dc_i > Len(dc_nodes)
    /\ cycle' = NoCycle
    /\ pc' = "dfs_done"
    /\ UNCHANGED <<caller, dc_nodes, dc_edges, state, parent, stack, dc_i, entered, valVars>>

DetectCycleStep ==
    \/ DcOuterEnter
    \/ DcOuterSkip
    \/ DcEdgeUnseen
    \/ DcEdgeVisiting
    \/ DcEdgeDone
    \/ DcReturn
    \/ DcFinish

----------------------------------------------------------------------------
(* read_text and parse_json_line *)

\* read_text without the is_file test: a directory is read like a file
ReadTextErrorNoFileTest(f) ==
    CASE f.status = "missing" -> <<ErrorF("File does not exist", <<>>, 0)>>
      [] f.status = "not_utf8" -> <<ErrorF("File is not UTF-8 decodable", <<>>, 0)>>
      [] OTHER -> <<>>

\* read_text: the finding added when the file cannot be read (it returns None)
ReadTextError(f) ==
    CASE f.status = "missing" -> <<ErrorF("File does not exist", <<>>, 0)>>
      [] f.status = "not_file" -> <<ErrorF("Path is not a file", <<>>, 0)>>
      [] f.status = "not_utf8" -> <<ErrorF("File is not UTF-8 decodable", <<>>, 0)>>
      [] OTHER -> <<>>

\* [line for line in text.splitlines() if line.strip()]
NonBlank(ls) == SelectSeq(ls, LAMBDA l : l.kind # "blank")

\* parse_json_line: the finding it adds (if any) and the dict it returns
ParseJsonLine(l, line_no) ==
    IF l.kind = "badjson"
    THEN [findings |-> <<ErrorF("Invalid JSON", <<>>, line_no)>>, parsed |-> <<>>]
    ELSE IF l.v.k # "obj"
    THEN [findings |-> <<ErrorF("JSONL line must be a JSON object", <<>>, line_no)>>,
          parsed |-> <<>>]
    ELSE [findings |-> <<>>, parsed |-> <<[line_no |-> line_no, obj |-> l.v.o]>>]

RECURSIVE ParseLines(_, _)
\* for idx, line in enumerate(lines, start=1): rows.append((idx, parsed))
ParseLines(ls, idx) ==
    IF idx > Len(ls) THEN [findings |-> <<>>, rows |-> <<>>]
    ELSE LET one == ParseJsonLine(ls[idx], idx)
             rest == ParseLines(ls, idx + 1)
         IN [findings |-> one.findings \o rest.findings, rows |-> one.parsed \o rest.rows]

----------------------------------------------------------------------------
(* check_issues: the meta row *)

RequiredMetaFields == <<"plan", "goal", "tech_stack", "source", "total_issues">>

EcKeys == <<"worktree_path", "branch", "base_branch">>

\* what detect_git_branch can return
Branches == {"main", "unknown"}

\* fallback_context[key]
FallbackContext(key, branch) == IF key = "worktree_path" THEN "project_root" ELSE branch

RECURSIVE MissingFieldFindings(_, _, _, _, _)
\* for field_name in fields: if field_name not in obj: report.error(...)
MissingFieldFindings(obj, fields, i, message, line_no) ==
    IF i > Len(fields) THEN <<>>
    ELSE (IF fields[i] \notin DOMAIN obj THEN <<ErrorF(message, <<fields[i]>>, line_no)>> ELSE <<>>)
         \o MissingFieldFindings(obj, fields, i + 1, message, line_no)

\* if meta.get("type") != "meta"
MetaTypeFindings(meta, line_no) ==
    IF Get(meta, "type") # JStr("meta")
    THEN <<ErrorF("First line must be type=meta", <<>>, line_no)>>
    ELSE <<>>

RECURSIVE EcKeyFindings(_, _, _, _)
\* for key in (...): if not str(execution_context.get(key, "")).strip()
EcKeyFindings(ec, i, branch, line_no) ==
    IF i > Len(EcKeys) THEN <<>>
    ELSE (IF IsBlank(Repr(GetOrEmpty(ec, EcKeys[i])))
          THEN <<InfoF("Meta execution_context missing key; fallback available",
                       <<EcKeys[i], FallbackContext(EcKeys[i], branch)>>, line_no)>>
          ELSE <<>>)
         \o EcKeyFindings(ec, i + 1, branch, line_no)

\* the execution_context branch, reporting a wrong type as an ERROR
ExecutionContextFindingsStrict(meta, branch, line_no) ==
    LET ec == Get(meta, "execution_context")
    IN IF ec.k = "null"
       THEN <<InfoF("Meta execution_context missing; using fallback context", <<>>, line_no)>>
       ELSE IF ec.k = "obj"
       THEN EcKeyFindings(ec.o, 1, branch, line_no)
       ELSE <<ErrorF("Meta execution_context is not an object; fallback context will be used",
                     <<>>, line_no)>>

\* the execution_context branch of check_issues
ExecutionContextFindings(meta, branch, line_no) ==
    LET ec == Get(meta, "execution_context")
    IN IF ec.k = "null"
       THEN <<InfoF("Meta execution_context missing; using fallback context", <<>>, line_no)>>
       ELSE IF ec.k = "obj"
       THEN EcKeyFindings(ec.o, 1, branch, line_no)
       ELSE <<InfoF("Meta execution_context is not an object; fallback context will be used",
                    <<>>, line_no)>>

\* the source branch of check_issues
SourceFindings(meta, line_no) ==
    LET source == Get(meta, "source")
    IN IF IsNonEmptyStr(source) /\ ~PathExists(source.s)
       THEN <<InfoF("Meta source path not found (non-blocking)", <<>>, line_no)>>
       ELSE <<>>

\* every finding of check_issues about the meta row, in order
MetaFindings(meta, branch, line_no) ==
    MetaTypeFindings(meta, line_no)
    \o MissingFieldFindings(meta, RequiredMetaFields, 1, "Meta missing field", line_no)
    \o ExecutionContextFindings(meta, branch, line_no)
    \o SourceFindings(meta, line_no)

\* isinstance(total_issues, int): bool is a subclass of int
IsInt(v) == v.k \in {"int", "bool"}

IntValue(v) == IF v.k = "int" THEN v.n ELSE IF v.b THEN 1 ELSE 0

\* if isinstance(total_issues, int) and total_issues != len(issue_rows)
TotalIssuesFindings(meta, actual, line_no) ==
    LET total_issues == Get(meta, "total_issues")
    IN IF IsInt(total_issues) /\ IntValue(total_issues) # actual
       THEN <<ErrorF("Meta total_issues does not match actual",
                     <<Repr(total_issues), ToString(actual)>>, line_no)>>
       ELSE <<>>

----------------------------------------------------------------------------
(* check_issues: the issue rows *)

RequiredIssueFields ==
    <<"id", "priority", "phase", "area", "title", "description", "depends_on",
      "acceptance_criteria", "test_approach", "review_initial_requirements",
      "review_regression_requirements", "dev_state", "review_initial_state",
      "review_regression_state", "git_state", "blocked", "owner", "refs", "notes">>

Priorities == {"P0", "P1", "P2"}

\* STATUS_ENUMS, in the order its items are iterated
StatusFields == <<"dev_state", "review_initial_state", "review_regression_state", "git_state">>

StatusEnums(field_name) ==
    IF field_name = "git_state" THEN {"uncommitted", "committed"}
    ELSE {"pending", "in_progress", "done"}

\* value in allowed, for a hashable value and a set of strings
InStrings(v, allowed) == v.k = "str" /\ v.s \in allowed

\* if issue.get("priority") not in {"P0", "P1", "P2"}
PriorityFindings(issue, line_no) ==
    IF ~InStrings(Get(issue, "priority"), Priorities)
    THEN <<ErrorF("Invalid priority", <<Repr(Get(issue, "priority"))>>, line_no)>>
    ELSE <<>>

RECURSIVE StatusEnumLoop(_, _, _)
\* for field_name, allowed in STATUS_ENUMS.items(): the membership test hashes
\* the value and raises TypeError on a list or a dict
StatusEnumLoop(issue, i, line_no) ==
    IF i > Len(StatusFields) THEN [findings |-> <<>>, raised |-> FALSE]
    ELSE LET value == Get(issue, StatusFields[i])
         IN IF Unhashable(value) THEN [findings |-> <<>>, raised |-> TRUE]
            ELSE LET rest == StatusEnumLoop(issue, i + 1, line_no)
                     here == IF ~InStrings(value, StatusEnums(StatusFields[i]))
                             THEN <<ErrorF("Invalid status", <<StatusFields[i], Repr(value)>>, line_no)>>
                             ELSE <<>>
                 IN [findings |-> here \o rest.findings, raised |-> rest.raised]

\* if not isinstance(issue.get("blocked"), bool)
BlockedFindings(issue, line_no) ==
    IF Get(issue, "blocked").k # "bool"
    THEN <<ErrorF("blocked must be boolean", <<>>, line_no)>>
    ELSE <<>>

\* if not isinstance(depends_on, list)
DependsOnTypeFindings(issue, line_no) ==
    IF Get(issue, "depends_on").k # "arr"
    THEN <<ErrorF("depends_on must be an array", <<>>, line_no)>>
    ELSE <<>>

\* REF_RE.match(ref).group(1) over the ref strings of the explored inputs:
\* the path before ":line" or ":line-line", "" when the pattern does not match
RefPath(ref) ==
    CASE ref = "src/a.py:1" -> "src/a.py"
      [] ref = "src/a.py:1-10" -> "src/a.py"
      [] ref = "gone.py:3" -> "gone.py"
      [] OTHER -> ""

RECURSIVE RefLoop(_, _, _)
\* for ref in refs
RefLoop(refs, i, line_no) ==
    IF i > Len(refs) THEN <<>>
    ELSE (IF refs[i].k # "str"
          THEN <<ErrorF("Each ref must be string", <<>>, line_no)>>
          ELSE IF RefPath(refs[i].s) = ""
          THEN <<ErrorF("Invalid ref format", <<refs[i].s>>, line_no)>>
          ELSE IF ~PathExists(RefPath(refs[i].s))
          THEN <<InfoF("Referenced path not found (non-blocking)", <<RefPath(refs[i].s)>>, line_no)>>
          ELSE <<>>)
         \o RefLoop(refs, i + 1, line_no)

\* the refs branch of check_issues
RefsFindings(issue, line_no) ==
    LET refs == Get(issue, "refs")
    IN IF refs.k # "arr" \/ (refs.k = "arr" /\ refs.a = <<>>)
       THEN <<ErrorF("refs must be a non-empty array", <<>>, line_no)>>
       ELSE RefLoop(refs.a, 1, line_no)

CommittedStates == <<"dev_state", "review_initial_state", "review_regression_state">>

RECURSIVE CommittedStateLoop(_, _, _)
\* for state_name in (...): if issue.get(state_name) != "done"
CommittedStateLoop(issue, i, line_no) ==
    IF i > Len(CommittedStates) THEN <<>>
    ELSE (IF Get(issue, CommittedStates[i]) # JStr("done")
          THEN <<ErrorF("Committed issue must have state=done", <<CommittedStates[i]>>, line_no)>>
          ELSE <<>>)
         \o CommittedStateLoop(issue, i + 1, line_no)

\* if issue.get("git_state") == "committed"
CommittedFindings(issue, line_no) ==
    IF Get(issue, "git_state") = JStr("committed")
    THEN CommittedStateLoop(issue, 1, line_no)
         \o (IF Get(issue, "blocked") = JBool(TRUE)
             THEN <<ErrorF("Committed issue cannot be blocked", <<>>, line_no)>>
             ELSE <<>>)
    ELSE <<>>

\* one iteration of "for line_no, issue in issue_rows": the findings added,
\* issue_map afterwards, and whether the iteration raised TypeError
IssueCheck(issue, line_no, m) ==
    LET missing == MissingFieldFindings(issue, RequiredIssueFields, 1, "Issue missing field", line_no)
        issue_id == Get(issue, "id")
    IN IF ~IsNonEmptyStr(issue_id)
       THEN [findings |-> missing \o <<ErrorF("Issue id must be a non-empty string", <<>>, line_no)>>,
             map |-> m, raised |-> FALSE]
       ELSE
       LET dup == IF issue_id.s \in DOMAIN m.val
                  THEN <<ErrorF("Duplicate issue id", <<issue_id.s>>, line_no)>>
                  ELSE <<>>
           m2 == MapSet(m, issue_id.s, [line_no |-> line_no, obj |-> issue])
           status == StatusEnumLoop(issue, 1, line_no)
       IN IF Unhashable(Get(issue, "priority"))
          THEN [findings |-> missing \o dup, map |-> m2, raised |-> TRUE]
          ELSE IF status.raised
          THEN [findings |-> missing \o dup \o PriorityFindings(issue, line_no) \o status.findings,
                map |-> m2, raised |-> TRUE]
          ELSE [findings |-> missing \o dup \o PriorityFindings(issue, line_no) \o status.findings
                             \o BlockedFindings(issue, line_no)
                             \o DependsOnTypeFindings(issue, line_no)
                             \o RefsFindings(issue, line_no)
                             \o CommittedFindings(issue, line_no),
                map |-> m2, raised |-> FALSE]

RECURSIVE IssueLoop(_, _, _)
\* for line_no, issue in issue_rows, up to the end or the first exception
IssueLoop(issue_rows, i, acc) ==
    IF i > Len(issue_rows) \/ acc.raised THEN acc
    ELSE LET r == IssueCheck(issue_rows[i].obj, issue_rows[i].line_no, acc.map)
         IN IssueLoop(issue_rows, i + 1,
                      [findings |-> acc.findings \o r.findings, map |-> r.map, raised |-> r.raised])

----------------------------------------------------------------------------
(* check_issues: the dependency pass *)

\* issue.get("depends_on", [])
DependsOnOrEmpty(issue) == IF "depends_on" \in DOMAIN issue THEN issue["depends_on"] ELSE JArr(<<>>)

RECURSIVE DepEntryLoop(_, _, _, _, _)
\* for dep_id in depends_on: the findings added and the edges appended
DepEntryLoop(deps, i, issue_id, m, line_no) ==
    IF i > Len(deps) THEN [findings |-> <<>>, edges |-> <<>>]
    ELSE LET rest == DepEntryLoop(deps, i + 1, issue_id, m, line_no)
             dep_id == deps[i]
         IN IF ~IsNonEmptyStr(dep_id)
            THEN [findings |-> <<ErrorF("depends_on entries must be non-empty strings", <<>>, line_no)>>
                               \o rest.findings,
                  edges |-> rest.edges]
            ELSE IF dep_id.s = issue_id
            THEN [findings |-> <<ErrorF("Issue cannot depend on itself", <<>>, line_no)>>
                               \o rest.findings,
                  edges |-> rest.edges]
            ELSE IF dep_id.s \notin DOMAIN m.val
            THEN [findings |-> <<ErrorF("Issue depends on unknown id", <<dep_id.s>>, line_no)>>
                               \o rest.findings,
                  edges |-> rest.edges]
            ELSE [findings |-> rest.findings, edges |-> <<dep_id.s>> \o rest.edges]

\* the body of "for issue_id, (line_no, issue) in issue_map.items()"
DepCheck(issue_id, m) ==
    LET depends_on == DependsOnOrEmpty(m.val[issue_id].obj)
    IN IF depends_on.k # "arr" THEN [findings |-> <<>>, edges |-> <<>>]
       ELSE DepEntryLoop(depends_on.a, 1, issue_id, m, m.val[issue_id].line_no)

RECURSIVE DepFindings(_, _)
\* the findings of the whole dependency pass, in issue_map order
DepFindings(m, i) ==
    IF i > Len(m.keys) THEN <<>>
    ELSE DepCheck(m.keys[i], m).findings \o DepFindings(m, i + 1)

\* edges = {issue_id: [] ...} filled by the dependency pass
DepEdges(m) == [issue_id \in DOMAIN m.val |-> DepCheck(issue_id, m).edges]

----------------------------------------------------------------------------
(* check_issues, phase by phase *)

Return(rep) ==
    /\ report' = rep
    /\ outcome' = "returned"
    /\ pc' = "done"

Raise(rep) ==
    /\ report' = rep
    /\ outcome' = "raised"
    /\ pc' = "done"

\* text = read_text(...); lines = [...]; "JSONL is empty"
CiRead ==
    /\ pc = "ci_read"
    /\ IF file.status # "ok"
       THEN Return(report \o ReadTextError(file))
       ELSE IF NonBlank(file.lines) = <<>>
       THEN Return(Add(report, "ERROR", "JSONL is empty", <<>>, 0))
       ELSE /\ pc' = "ci_parse"
            /\ UNCHANGED <<report, outcome>>
    /\ UNCHANGED <<caller, dcVars, file, ciVars, cpVars>>

\* rows = [...]; if not rows: return report
CiParse ==
    /\ pc = "ci_parse"
    /\ LET parsed == ParseLines(NonBlank(file.lines), 1)
       IN /\ rows' = parsed.rows
          /\ IF parsed.rows = <<>>
             THEN Return(report \o parsed.findings)
             ELSE /\ report' = report \o parsed.findings
                  /\ pc' = "ci_meta"
                  /\ UNCHANGED outcome
    /\ UNCHANGED <<caller, dcVars, file, issue_map, cpVars>>

\* meta_line_no, meta = rows[0] and every check of the meta row
CiMeta ==
    /\ pc = "ci_meta"
    /\ \E branch \in Branches :
          report' = report \o MetaFindings(rows[1].obj, branch, rows[1].line_no)
    /\ pc' = "ci_count"
    /\ UNCHANGED <<caller, dcVars, file, outcome, ciVars, cpVars>>

\* issue_rows = rows[1:]; "No issue rows after meta"; the total_issues check
CiCount ==
    /\ pc = "ci_count"
    /\ IF Len(rows) = 1
       THEN Return(Add(report, "ERROR", "No issue rows after meta", <<>>, 0))
       ELSE /\ report' = report \o TotalIssuesFindings(rows[1].obj, Len(rows) - 1, rows[1].line_no)
            /\ pc' = "ci_issues"
            /\ UNCHANGED outcome
    /\ UNCHANGED <<caller, dcVars, file, ciVars, cpVars>>

\* the loop over issue_rows
CiIssues ==
    /\ pc = "ci_issues"
    /\ LET r == IssueLoop(Tail(rows), 1, [findings |-> <<>>, map |-> EmptyMap, raised |-> FALSE])
       IN /\ issue_map' = r.map
          /\ IF r.raised
             THEN Raise(report \o r.findings)
             ELSE /\ report' = report \o r.findings
                  /\ pc' = "ci_deps"
                  /\ UNCHANGED outcome
    /\ UNCHANGED <<caller, dcVars, file, rows, cpVars>>

\* issue_ids, edges, the dependency pass and the call of detect_cycle
CiDeps ==
    /\ pc = "ci_deps"
    /\ report' = report \o DepFindings(issue_map, 1)
    /\ DcBegin(issue_map.keys, DepEdges(issue_map))
    /\ caller' = "issues"
    /\ pc' = "dfs"
    /\ UNCHANGED <<file, outcome, ciVars, cpVars>>

\* if cycle: report.error(...); return report
CiCycle ==
    /\ pc = "dfs_done" /\ caller = "issues"
    /\ Return(IF cycle # NoCycle
              THEN Add(report, "ERROR", "Issue dependency cycle detected", cycle, 0)
              ELSE report)
    /\ UNCHANGED <<caller, dcVars, file, ciVars, cpVars>>

CheckIssuesStep ==
    \/ CiRead
    \/ CiParse
    \/ CiMeta
    \/ CiCount
    \/ CiIssues
    \/ CiDeps
    \/ CiCycle

----------------------------------------------------------------------------
(* The issues snapshots explored. *)

\* a key that the object does not have
Absent == [k |-> "absent"]

\* the object with the key set to a value, or without the key
With(o, key, c) == IF c = Absent THEN Remove(o, key) ELSE DictSet(o, key, c)

RECURSIVE WithoutAll(_, _)
WithoutAll(o, keySet) ==
    IF keySet = {} THEN o
    ELSE LET key == CHOOSE x \in keySet : TRUE
         IN WithoutAll(Remove(o, key), keySet \ {key})

FullContext ==
    [x \in {"worktree_path", "branch", "base_branch"} |-> JStr("main")]

ValidMeta(n) ==
    [x \in {"type", "plan", "goal", "tech_stack", "source", "total_issues", "execution_context"} |->
        CASE x = "type" -> JStr("meta")
          [] x = "source" -> JStr("docs/plan.md")
          [] x = "total_issues" -> JInt(n)
          [] x = "execution_context" -> JObj(FullContext)
          [] OTHER -> JStr("text")]

ValidIssue(id) ==
    [x \in Range(RequiredIssueFields) |->
        CASE x = "id" -> id
          [] x = "priority" -> JStr("P0")
          [] x = "phase" -> JInt(1)
          [] x = "depends_on" -> JArr(<<>>)
          [] x \in {"dev_state", "review_initial_state", "review_regression_state"} -> JStr("done")
          [] x = "git_state" -> JStr("uncommitted")
          [] x = "blocked" -> JBool(FALSE)
          [] x = "refs" -> JArr(<<JStr("src/a.py:1")>>)
          [] OTHER -> JStr("text")]

JsonLine(v) == [kind |-> "json", v |-> v]
BlankLine == [kind |-> "blank"]
BadJsonLine == [kind |-> "badjson"]

Snapshot(meta, issues) ==
    [status |-> "ok",
     lines |-> <<JsonLine(JObj(meta))>> \o [i \in 1..Len(issues) |-> JsonLine(JObj(issues[i]))]]

ContextValues ==
    {Absent, JNull, JStr("x"), JArr(<<>>), JObj(FullContext), JObj(Remove(FullContext, "branch")),
     JObj(DictSet(FullContext, "base_branch", JStr(" "))), JObj(EmptyDict),
     JObj(DictSet(FullContext, "worktree_path", JNull))}

\* snapshots that differ in the meta row
MetaDocs ==
    \E t \in {JStr("meta"), JStr("issue"), Absent},
       src \in {JStr("docs/plan.md"), JStr("gone.md"), JInt(1), Absent},
       tot \in {JInt(1), JInt(2), JBool(TRUE), JStr("1"), Absent},
       ec \in ContextValues,
       missing \in {{}, {"plan"}, {"goal", "tech_stack"}} :
        file = Snapshot(
                 WithoutAll(
                     With(With(With(With(ValidMeta(1), "type", t), "source", src), "total_issues", tot),
                          "execution_context", ec),
                     missing),
                 <<ValidIssue(JStr("A"))>>)

\* one issue row whose checked fields take every combination of values
FocusRows ==
    {[ValidIssue(id) EXCEPT !["priority"] = prio, !["dev_state"] = dev,
                            !["review_initial_state"] = ri, !["review_regression_state"] = rr,
                            !["git_state"] = git, !["blocked"] = bl] :
        id \in {JStr("A"), JStr(" "), JInt(5)},
        prio \in {JStr("P0"), JStr("P9"), JArr(<<JStr("P0")>>)},
        dev \in {JStr("done"), JStr("pending"), JObj(EmptyDict)},
        ri \in {JStr("done"), JStr("pending")},
        rr \in {JStr("done"), JStr("in_progress")},
        git \in {JStr("committed"), JStr("uncommitted")},
        bl \in {JBool(TRUE), JBool(FALSE)}}

\* the rows that stand next to the focus row
ContextRows ==
    {ValidIssue(JStr("B")),
     [ValidIssue(JStr("B")) EXCEPT !["git_state"] = JStr("committed"), !["dev_state"] = JStr("pending")],
     [ValidIssue(JStr("B")) EXCEPT !["priority"] = JArr(<<>>)]}

\* snapshots of n rows: the focus row at position p among context rows
FieldDocs ==
    \E n \in 1..MaxIssues : \E p \in 1..n : \E focus \in FocusRows, ctx \in [(1..n) \ {p} -> ContextRows] :
        file = Snapshot(ValidMeta(n), [i \in 1..n |-> IF i = p THEN focus ELSE ctx[i]])

\* a valid row with one field replaced or removed
DefectRows ==
    {With(ValidIssue(JStr("A")), d[1], d[2]) :
        d \in {<<"blocked", JStr("yes")>>, <<"blocked", JNull>>, <<"depends_on", JStr("A")>>,
               <<"depends_on", JNull>>, <<"refs", JArr(<<>>)>>, <<"refs", JStr("src/a.py:1")>>,
               <<"refs", JArr(<<JInt(1), JStr("src/a.py:1-10")>>)>>,
               <<"refs", JArr(<<JStr("src/a.py"), JStr("gone.py:3")>>)>>,
               <<"priority", JFloat>>, <<"priority", JBool(TRUE)>>, <<"git_state", JArr(<<>>)>>,
               <<"review_initial_state", JNull>>}
             \cup {<<f, Absent>> : f \in Range(RequiredIssueFields)}}

DefectDocs == \E row \in DefectRows : file = Snapshot(ValidMeta(1), <<row>>)

\* the id of row i: its own name, the name of the first row, or the empty string
IssueName(i) == <<"A", "B", "C", "D">>[i]
DepIdValues(i) == {JStr(IssueName(i)), JStr("A"), JStr("")}
DepEntryValues == {JStr("A"), JStr("B"), JStr("C"), JNull}

\* at most MaxDeps (row, entry) pairs, grouped by row
DepPairLists(n) ==
    {ps \in UNION {[1..k -> (1..n) \X DepEntryValues] : k \in 0..MaxDeps} :
        \A i \in 1..(Len(ps) - 1) : ps[i][1] <= ps[i + 1][1]}

\* snapshots that differ in the ids and depends_on of their rows; in half of
\* them the first row carries a list as its priority
DepDocs ==
    \E n \in 1..MaxIssues : \E ids \in [1..n -> {JStr(IssueName(i)) : i \in 1..n} \cup {JStr("")}],
                                 ps \in DepPairLists(n), bad \in BOOLEAN :
        /\ \A i \in 1..n : ids[i] \in DepIdValues(i)
        /\ file = Snapshot(ValidMeta(n),
                        [i \in 1..n |->
                            [ValidIssue(ids[i]) EXCEPT
                                !["depends_on"] = JArr(SelectSeqBy(ps, i, 1)),
                                !["priority"] = IF i = 1 /\ bad THEN JArr(<<>>) ELSE @]])

TwoRows == Snapshot(ValidMeta(2), <<ValidIssue(JStr("A")), ValidIssue(JStr("B"))>>).lines

InsertAt(ls, i, l) == SubSeq(ls, 1, i) \o <<l>> \o SubSeq(ls, i + 1, Len(ls))

\* unreadable files, files without rows, rows among blank or broken lines,
\* and a blank line above, between or below a meta row and a line with a finding
FileDocs ==
    \/ \E st \in {"missing", "not_file", "not_utf8", "ok"} : file = [status |-> st, lines |-> <<>>]
    \/ \E ls \in {<<BlankLine>>, <<BadJsonLine>>, <<JsonLine(JArr(<<>>)), BlankLine>>,
                  <<JsonLine(JObj(ValidMeta(0)))>>} :
          file = [status |-> "ok", lines |-> ls]
    \/ \E i \in 0..3, l \in {BlankLine, BadJsonLine, JsonLine(JStr("text"))} :
          file = [status |-> "ok", lines |-> InsertAt(TwoRows, i, l)]
    \/ \E i \in 0..2, l \in {BadJsonLine, JsonLine(JStr("text")),
                             JsonLine(JObj([ValidIssue(JStr("A")) EXCEPT !["priority"] = JStr("P9")]))} :
          file = [status |-> "ok",
                  lines |-> InsertAt(<<JsonLine(JObj(ValidMeta(1))), l>>, i, BlankLine)]

IssueDocs == MetaDocs \/ FieldDocs \/ DefectDocs \/ DepDocs \/ FileDocs

InitIssues ==
    /\ pc = "ci_read"
    /\ caller = "none"
    /\ IssueDocs
    /\ report = <<>>
    /\ outcome = "running"
    /\ rows = <<>>
    /\ issue_map = EmptyMap
    /\ dc_nodes = <<>>
    /\ dc_edges = EmptyDict
    /\ state = EmptyDict
    /\ parent = EmptyDict
    /\ stack = <<>>
    /\ dc_i = 1
    /\ cycle = NoCycle
    /\ entered = EmptyDict
    /\ run = 1
    /\ first_report = <<>>
    /\ first_outcome = "none"
    /\ set_order = <<>>
    /\ cli = NoCli

NextIssues == CheckIssuesStep \/ DetectCycleStep

SpecIssues == InitIssues /\ [][NextIssues]_vars

----------------------------------------------------------------------------
(* check_issues on a snapshot with broken lines, then on the same snapshot
   with those lines taken out. *)

\* broken lines put into one snapshot
MaxBad == 2

\* a line parse_json_line rejects: not JSON, or JSON that is no object
IsBadLine(l) == l.kind = "badjson" \/ (l.kind = "json" /\ l.v.k # "obj")

\* the text without the lines parse_json_line rejects
CleanLines(ls) == SelectSeq(ls, LAMBDA l : ~IsBadLine(l))

BadLines == {BadJsonLine, JsonLine(JArr(<<>>))}

\* the issue rows the base snapshots are made of
BaseRows ==
    {ValidIssue(JStr("A")),
     [ValidIssue(JStr("A")) EXCEPT !["depends_on"] = JArr(<<JStr("B")>>)],
     [ValidIssue(JStr("B")) EXCEPT !["depends_on"] = JArr(<<JStr("A")>>)],
     [ValidIssue(JStr("A")) EXCEPT !["priority"] = JStr("P9")],
     [ValidIssue(JStr("B")) EXCEPT !["priority"] = JArr(<<>>)]}

RECURSIVE InsertAll(_, _, _, _)
\* the lines ls with bad[k] put after position pos[k] of ls, for k = i down to 1
InsertAll(ls, pos, bad, i) ==
    IF i = 0 THEN ls ELSE InsertAll(InsertAt(ls, pos[i], bad[i]), pos, bad, i - 1)

\* a base snapshot (no row, a meta row alone, or issue rows with or without a
\* meta row and a right or wrong total_issues) with up to MaxBad broken lines
BrokenDocs ==
    \E n \in 0..2 : \E issues \in [1..n -> BaseRows], total \in {n, n + 3}, meta \in BOOLEAN :
        \E k \in 0..MaxBad :
            \E pos \in [1..k -> 0..(n + 1)], bad \in [1..k -> BadLines] :
                LET ls == IF meta THEN Snapshot(ValidMeta(total), issues).lines
                          ELSE [i \in 1..n |-> JsonLine(JObj(issues[i]))]
                IN /\ meta \/ total = n
                   /\ \A i \in 1..k : pos[i] <= Len(ls)
                   /\ \A i \in 1..(k - 1) : pos[i] <= pos[i + 1]
                   /\ file = [status |-> "ok", lines |-> InsertAll(ls, pos, bad, k)]

InitBroken ==
    /\ pc = "ci_read"
    /\ caller = "none"
    /\ BrokenDocs
    /\ report = <<>>
    /\ outcome = "running"
    /\ rows = <<>>
    /\ issue_map = EmptyMap
    /\ dc_nodes = <<>>
    /\ dc_edges = EmptyDict
    /\ state = EmptyDict
    /\ parent = EmptyDict
    /\ stack = <<>>
    /\ dc_i = 1
    /\ cycle = NoCycle
    /\ entered = EmptyDict
    /\ run = 1
    /\ first_report = <<>>
    /\ first_outcome = "none"
    /\ set_order = <<>>
    /\ cli = NoCli

\* check_issues is called once more, on the snapshot without its broken lines
CiAgainCleaned ==
    /\ pc = "done" /\ run = 1
    /\ run' = 2
    /\ first_report' = report
    /\ first_outcome' = outcome
    /\ file' = [file EXCEPT !.lines = CleanLines(file.lines)]
    /\ report' = <<>>
    /\ outcome' = "running"
    /\ rows' = <<>>
    /\ issue_map' = EmptyMap
    /\ pc' = "ci_read"
    /\ UNCHANGED <<caller, dcVars, set_order, cli>>

NextBroken == CheckIssuesStep \/ DetectCycleStep \/ CiAgainCleaned

SpecBroken == InitBroken /\ [][NextBroken]_vars

----------------------------------------------------------------------------
(* check_issues on snapshots whose meta row carries a schema_version and an
   archived flag, or neither. *)

SchemaVersionValues == {Absent, JInt(2), JInt(999), JStr("2")}
ArchivedValues == {Absent, JBool(TRUE), JBool(FALSE)}

\* a meta row with or without the two keys, followed by up to MaxIssues rows
VersionDocs ==
    \E n \in 0..MaxIssues :
        \E issues \in [1..n -> BaseRows], ver \in SchemaVersionValues, arch \in ArchivedValues :
            file = Snapshot(With(With(ValidMeta(n), "schema_version", ver), "archived", arch),
                            issues)

InitVersions ==
    /\ pc = "ci_read"
    /\ caller = "none"
    /\ VersionDocs
    /\ report = <<>>
    /\ outcome = "running"
    /\ rows = <<>>
    /\ issue_map = EmptyMap
    /\ dc_nodes = <<>>
    /\ dc_edges = EmptyDict
    /\ state = EmptyDict
    /\ parent = EmptyDict
    /\ stack = <<>>
    /\ dc_i = 1
    /\ cycle = NoCycle
    /\ entered = EmptyDict
    /\ run = 1
    /\ first_report = <<>>
    /\ first_outcome = "none"
    /\ set_order = <<>>
    /\ cli = NoCli

NextVersions == CheckIssuesStep \/ DetectCycleStep

SpecVersions == InitVersions /\ [][NextVersions]_vars

----------------------------------------------------------------------------
(* check_issues on snapshots whose first row has the type meta, another type
   or none. *)

TypeValues == {JStr("meta"), JStr("issue"), JNull, Absent}

\* a first row of any of the types, with or without its plan field, followed
\* by up to MaxIssues rows
TypeDocs ==
    \E n \in 0..MaxIssues :
        \E issues \in [1..n -> BaseRows], t \in TypeValues, plan \in {JStr("text"), Absent} :
            file = Snapshot(With(With(ValidMeta(n), "type", t), "plan", plan), issues)

InitTypes ==
    /\ pc = "ci_read"
    /\ caller = "none"
    /\ TypeDocs
    /\ report = <<>>
    /\ outcome = "running"
    /\ rows = <<>>
    /\ issue_map = EmptyMap
    /\ dc_nodes = <<>>
    /\ dc_edges = EmptyDict
    /\ state = EmptyDict
    /\ parent = EmptyDict
    /\ stack = <<>>
    /\ dc_i = 1
    /\ cycle = NoCycle
    /\ entered = EmptyDict
    /\ run = 1
    /\ first_report = <<>>
    /\ first_outcome = "none"
    /\ set_order = <<>>
    /\ cli = NoCli

NextTypes == CheckIssuesStep \/ DetectCycleStep

SpecTypes == InitTypes /\ [][NextTypes]_vars

----------------------------------------------------------------------------
(* A Report on which error, warn and info are called directly. *)

\* calls made on one Report
MaxFindings == 3

CallMessages == {"first message", "second message"}

InitReport ==
    /\ pc = "report"
    /\ caller = "none"
    /\ file = NoFile
    /\ report = <<>>
    /\ outcome = "running"
    /\ rows = <<>>
    /\ issue_map = EmptyMap
    /\ dc_nodes = <<>>
    /\ dc_edges = EmptyDict
    /\ state = EmptyDict
    /\ parent = EmptyDict
    /\ stack = <<>>
    /\ dc_i = 1
    /\ cycle = NoCycle
    /\ entered = EmptyDict
    /\ run = 1
    /\ first_report = <<>>
    /\ first_outcome = "none"
    /\ set_order = <<>>
    /\ cli = NoCli

\* report.error(message, location)
ReportError ==
    /\ pc = "report" /\ Len(report) < MaxFindings
    /\ \E message \in CallMessages : report' = Add(report, "ERROR", message, <<>>, 0)
    /\ UNCHANGED <<pc, caller, dcVars, file, outcome, ciVars, cpVars>>

\* report.warn(message, location)
ReportWarn ==
    /\ pc = "report" /\ Len(report) < MaxFindings
    /\ \E message \in CallMessages : report' = Add(report, "WARN", message, <<>>, 0)
    /\ UNCHANGED <<pc, caller, dcVars, file, outcome, ciVars, cpVars>>

\* report.info(message, location)
ReportInfo ==
    /\ pc = "report" /\ Len(report) < MaxFindings
    /\ \E message \in CallMessages : report' = Add(report, "INFO", message, <<>>, 0)
    /\ UNCHANGED <<pc, caller, dcVars, file, outcome, ciVars, cpVars>>

NextReport == ReportError \/ ReportWarn \/ ReportInfo

SpecReport == InitReport /\ [][NextReport]_vars

----------------------------------------------------------------------------
(* parse_tasks, extract_field, parse_depends and check_plan *)

\* tasks in a plan, and Task references in a whole plan
MaxTasks == 2
MaxRefs == 2

\* A line of the plan text: blank, prose, a task heading
\* "### Task <id>: <title>", or a bold field "**<label>:** <value>".  A value
\* is the list of its comma-separated phrases, <<>> for an empty value.
PBlank == [kind |-> "blank"]
PText == [kind |-> "text"]
PTask(id, title) == [kind |-> "task", id |-> id, title |-> title]
PField(label, value) == [kind |-> "field", label |-> label, value |-> value]

\* str.lower() and re.IGNORECASE on the labels and phrases that occur
LowerTable ==
    [s \in {"Goal", "Architecture", "Tech Stack", "Execution Context", "Priority", "Area",
            "Depends On", "Acceptance Criteria", "Review (Dev)", "Review (Regression)",
            "Files", "None", "NONE", "PRIORITY"} |->
        CASE s = "Goal" -> "goal"
          [] s = "Architecture" -> "architecture"
          [] s = "Tech Stack" -> "tech stack"
          [] s = "Execution Context" -> "execution context"
          [] s \in {"Priority", "PRIORITY"} -> "priority"
          [] s = "Area" -> "area"
          [] s = "Depends On" -> "depends on"
          [] s = "Acceptance Criteria" -> "acceptance criteria"
          [] s = "Review (Dev)" -> "review (dev)"
          [] s = "Review (Regression)" -> "review (regression)"
          [] s = "Files" -> "files"
          [] OTHER -> "none"]

Lower(s) == IF s \in DOMAIN LowerTable THEN LowerTable[s] ELSE s

\* the task ids a phrase can name
RefIds == {"1", "2", "3", "4", "1.5"}

\* TASK_REF_RE on one phrase: the id after "Task ", in any letter case, or ""
TaskRef(phrase) ==
    IF \E id \in RefIds : phrase \in {"Task " \o id, "task " \o id}
    THEN CHOOSE id \in RefIds : phrase \in {"Task " \o id, "task " \o id}
    ELSE ""

\* TASK_HEADER_RE.match(line.strip()): the title group must not be empty
IsTaskHeader(l) == l.kind = "task" /\ l.title # ""

RECURSIVE TaskStarts(_, _)
\* starts: the line numbers of the task headings, in order
TaskStarts(lines, idx) ==
    IF idx > Len(lines) THEN <<>>
    ELSE (IF IsTaskHeader(lines[idx]) THEN <<idx>> ELSE <<>>) \o TaskStarts(lines, idx + 1)

\* parse_tasks: (task_id, title, start_line, block) per heading; a block runs
\* to the line before the next heading, or to the end of the text
ParseTasks(lines) ==
    LET starts == TaskStarts(lines, 1)
    IN [i \in 1..Len(starts) |->
           LET start_line == starts[i]
               end_line == IF i + 1 <= Len(starts) THEN starts[i + 1] - 1 ELSE Len(lines)
           IN [task_id |-> lines[start_line].id,
               title |-> lines[start_line].title,
               start_line |-> start_line,
               block |-> SubSeq(lines, start_line, end_line)]]

\* field_re.match(line): a bold field whose label is field_name in any case
FieldMatches(l, field_name) == l.kind = "field" /\ Lower(l.label) = Lower(field_name)

RECURSIVE ExtractFieldFrom(_, _, _)
ExtractFieldFrom(block, field_name, i) ==
    IF i > Len(block) THEN <<>>
    ELSE IF FieldMatches(block[i], field_name) THEN block[i].value
    ELSE ExtractFieldFrom(block, field_name, i + 1)

\* extract_field: the value of the first matching line, "" when there is none
ExtractField(block, field_name) == ExtractFieldFrom(block, field_name, 1)

\* value.lower() == "none"
IsNone(value) == Len(value) = 1 /\ Lower(value[1]) = "none"

RECURSIVE FindAllRefs(_, _)
\* TASK_REF_RE.findall(value)
FindAllRefs(value, i) ==
    IF i > Len(value) THEN <<>>
    ELSE (IF TaskRef(value[i]) # "" THEN <<TaskRef(value[i])>> ELSE <<>>)
             \o FindAllRefs(value, i + 1)

\* parse_depends with a search for one reference in place of findall
ParseDependsFirstOnly(raw_value) ==
    IF raw_value = <<>> \/ IsNone(raw_value) THEN <<>>
    ELSE SubSeq(FindAllRefs(raw_value, 1), 1, 1)

\* parse_depends
ParseDepends(raw_value) ==
    IF raw_value = <<>> \/ IsNone(raw_value) THEN <<>> ELSE FindAllRefs(raw_value, 1)

HeaderLabels == <<"Goal", "Architecture", "Tech Stack", "Execution Context">>

\* re.search(pattern, text, IGNORECASE | MULTILINE): a line with the label,
\* then white space (line ends included), then a character that is not white
HeaderFound(lines, label) ==
    \E i \in 1..Len(lines) :
        /\ FieldMatches(lines[i], label)
        /\ \/ lines[i].value # <<>>
           \/ \E j \in (i + 1)..Len(lines) : lines[j].kind # "blank"

RECURSIVE HeaderFindingsFirstOnly(_, _)
\* HeaderFindings with a first missing header that ends the search
HeaderFindingsFirstOnly(lines, i) ==
    IF i > Len(HeaderLabels) THEN <<>>
    ELSE IF ~HeaderFound(lines, HeaderLabels[i])
    THEN <<ErrorF("Missing required header", <<HeaderLabels[i]>>, 0)>>
    ELSE HeaderFindingsFirstOnly(lines, i + 1)

RECURSIVE HeaderFindings(_, _)
\* for label, pattern in header_patterns.items(): ...
HeaderFindings(lines, i) ==
    IF i > Len(HeaderLabels) THEN <<>>
    ELSE (IF ~HeaderFound(lines, HeaderLabels[i])
          THEN <<ErrorF("Missing required header", <<HeaderLabels[i]>>, 0)>>
          ELSE <<>>) \o HeaderFindings(lines, i + 1)

RequiredTaskFields ==
    <<"Priority", "Area", "Depends On", "Acceptance Criteria", "Review (Dev)",
      "Review (Regression)">>

RECURSIVE TaskMissingFields(_, _)
\* for field_name in required_fields: if not extract_field(block, field_name)
TaskMissingFields(task, i) ==
    IF i > Len(RequiredTaskFields) THEN <<>>
    ELSE (IF ExtractField(task.block, RequiredTaskFields[i]) = <<>>
          THEN <<ErrorF("Task missing field",
                        <<task.task_id, task.title, RequiredTaskFields[i]>>, task.start_line)>>
          ELSE <<>>) \o TaskMissingFields(task, i + 1)

\* if priority and priority not in {"P0", "P1", "P2"}
TaskPriorityFindings(task) ==
    LET priority == ExtractField(task.block, "Priority")
    IN IF priority # <<>> /\ priority \notin {<<"P0">>, <<"P1">>, <<"P2">>}
       THEN <<ErrorF("Task invalid Priority", <<task.task_id>> \o priority, task.start_line)>>
       ELSE <<>>

\* if depends_raw and depends_raw.lower() != "none" and not deps
TaskDependsFindings(task) ==
    LET depends_raw == ExtractField(task.block, "Depends On")
    IN IF depends_raw # <<>> /\ ~IsNone(depends_raw) /\ ParseDepends(depends_raw) = <<>>
       THEN <<ErrorF("Task has invalid Depends On", <<task.task_id>> \o depends_raw,
                     task.start_line)>>
       ELSE <<>>

RECURSIVE TaskDepLoopSelfInverted(_, _, _, _)
\* TaskDepLoop with the self-dependency test turned round
TaskDepLoopSelfInverted(task, deps, i, task_ids) ==
    IF i > Len(deps) THEN <<>>
    ELSE (IF deps[i] \notin task_ids
          THEN <<ErrorF("Task depends on unknown Task", <<task.task_id, deps[i]>>,
                        task.start_line)>>
          ELSE <<>>)
         \o (IF deps[i] # task.task_id
             THEN <<ErrorF("Task cannot depend on itself", <<task.task_id>>, task.start_line)>>
             ELSE <<>>)
         \o TaskDepLoopSelfInverted(task, deps, i + 1, task_ids)

RECURSIVE TaskDepLoop(_, _, _, _)
\* for dep in deps: unknown Task, then depends on itself
TaskDepLoop(task, deps, i, task_ids) ==
    IF i > Len(deps) THEN <<>>
    ELSE (IF deps[i] \notin task_ids
          THEN <<ErrorF("Task depends on unknown Task", <<task.task_id, deps[i]>>,
                        task.start_line)>>
          ELSE <<>>)
         \o (IF deps[i] = task.task_id
             THEN <<ErrorF("Task cannot depend on itself", <<task.task_id>>, task.start_line)>>
             ELSE <<>>)
         \o TaskDepLoop(task, deps, i + 1, task_ids)

\* if not any(line.strip().startswith("**Files:**") for line in block)
TaskFilesFindings(task) ==
    IF \E i \in 1..Len(task.block) :
           task.block[i].kind = "field" /\ task.block[i].label = "Files"
    THEN <<>>
    ELSE <<ErrorF("Task missing Files section", <<task.task_id>>, task.start_line)>>

\* the findings of one pass of the loop over tasks
TaskFindings(task, task_ids) ==
    TaskMissingFields(task, 1)
        \o TaskPriorityFindings(task)
        \o TaskDependsFindings(task)
        \o TaskDepLoop(task, ParseDepends(ExtractField(task.block, "Depends On")), 1, task_ids)
        \o TaskFilesFindings(task)

RECURSIVE TaskLoop(_, _, _, _)
\* for task_id, title, start_line, block in tasks: ...; edges[task_id] = deps
TaskLoop(tasks, i, task_ids, acc) ==
    IF i > Len(tasks) THEN acc
    ELSE TaskLoop(tasks, i + 1, task_ids,
                  [findings |-> acc.findings \o TaskFindings(tasks[i], task_ids),
                   edges |-> DictSet(acc.edges, tasks[i].task_id,
                                     ParseDepends(ExtractField(tasks[i].block, "Depends On")))])

\* task_ids = {task_id for task_id, _, _, _ in tasks}
TaskIds(tasks) == {tasks[i].task_id : i \in 1..Len(tasks)}

\* the orders in which a set can be iterated
IterationOrders(S) == {f \in [1..Cardinality(S) -> S] : Range(f) = S}

\* read_text, the header patterns, parse_tasks and "No task section found"
CpRead ==
    /\ pc = "cp_read"
    /\ IF file.status # "ok"
       THEN Return(report \o ReadTextError(file))
       ELSE IF ParseTasks(file.lines) = <<>>
       THEN Return(Add(report \o HeaderFindings(file.lines, 1),
                       "ERROR", "No task section found", <<>>, 0))
       ELSE /\ report' = report \o HeaderFindings(file.lines, 1)
            /\ pc' = "cp_tasks"
            /\ UNCHANGED outcome
    /\ UNCHANGED <<caller, dcVars, file, ciVars, cpVars>>

\* task_ids, edges, the loop over tasks and the call of detect_cycle, which
\* iterates the set task_ids in the order this process gives it
CpTasks ==
    /\ pc = "cp_tasks"
    /\ LET tasks == ParseTasks(file.lines)
           task_ids == TaskIds(tasks)
           res == TaskLoop(tasks, 1, task_ids,
                           [findings |-> <<>>, edges |-> [t \in task_ids |-> <<>>]])
       IN /\ report' = report \o res.findings
          /\ \E order \in IterationOrders(task_ids) :
                /\ set_order \in {<<>>, order}
                /\ set_order' = order
                /\ DcBegin(order, res.edges)
    /\ caller' = "plan"
    /\ pc' = "dfs"
    /\ UNCHANGED <<file, outcome, ciVars, run, first_report, first_outcome, cli>>

\* if cycle: report.error(...); return report
CpCycle ==
    /\ pc = "dfs_done" /\ caller = "plan"
    /\ Return(IF cycle # NoCycle
              THEN Add(report, "ERROR", "Task dependency cycle detected", cycle, 0)
              ELSE report)
    /\ UNCHANGED <<caller, dcVars, file, ciVars, cpVars>>

\* check_plan is called once more on the unmodified document, in the same
\* process (the set order stays) or in a new one (the set order is drawn anew)
CpAgain ==
    /\ pc = "done" /\ run = 1
    /\ run' = 2
    /\ first_report' = report
    /\ first_outcome' = outcome
    /\ report' = <<>>
    /\ outcome' = "running"
    /\ pc' = "cp_read"
    /\ \E same_process \in BOOLEAN : set_order' = IF same_process THEN set_order ELSE <<>>
    /\ UNCHANGED <<caller, dcVars, file, ciVars, cli>>

CheckPlanStep ==
    \/ CpRead
    \/ CpTasks
    \/ CpCycle
    \/ CpAgain

----------------------------------------------------------------------------
(* The plan documents explored. *)

TaskName(i) == <<"1", "2", "3", "4">>[i]

ValidHeaders ==
    <<PField("Goal", <<"text">>), PField("Architecture", <<"text">>),
      PField("Tech Stack", <<"text">>), PField("Execution Context", <<"text">>)>>

ValidFields(depends) ==
    <<PField("Priority", <<"P0">>), PField("Area", <<"text">>), PField("Depends On", depends),
      PField("Acceptance Criteria", <<"text">>), PField("Review (Dev)", <<"text">>),
      PField("Review (Regression)", <<"text">>), PField("Files", <<>>)>>

\* one task section: its heading, its field lines and a closing blank line
TaskSection(id, fields) == <<PTask(id, "title")>> \o fields \o <<PBlank>>

RECURSIVE Flatten(_)
Flatten(ss) == IF ss = <<>> THEN <<>> ELSE Head(ss) \o Flatten(Tail(ss))

PlanDoc(headers, sections) ==
    [status |-> "ok", lines |-> <<PText, PBlank>> \o headers \o <<PBlank>> \o Flatten(sections)]

RefPhrases == {"Task 1", "Task 2", "Task 3", "TBD"}

\* lists of at most MaxRefs (task position, phrase) pairs, grouped by task
RefPairLists(n) ==
    {ps \in UNION {[1..k -> (1..n) \X RefPhrases] : k \in 0..MaxRefs} :
        \A i \in 1..(Len(ps) - 1) : ps[i][1] <= ps[i + 1][1]}

DependsValue(ps, i) == IF SelectSeqBy(ps, i, 1) = <<>> THEN <<"None">> ELSE SelectSeqBy(ps, i, 1)

\* valid tasks that differ in their ids and in what they depend on
PlanDepDocs ==
    \E n \in 1..MaxTasks : \E ids \in [1..n -> {TaskName(i) : i \in 1..n}], ps \in RefPairLists(n) :
        /\ \A i \in 1..n : ids[i] \in {TaskName(i), TaskName(1)}
        /\ file = PlanDoc(ValidHeaders,
                          [i \in 1..n |-> TaskSection(ids[i], ValidFields(DependsValue(ps, i)))])

\* the ways one field line of a task can be written
FieldVariants(l) ==
    {<<>>, <<l>>, <<PField(l.label, <<>>)>>, <<PField(Lower(l.label), l.value)>>,
     <<PField(l.label, <<>>), l>>, <<PField(l.label, <<"P9">>)>>,
     <<PField(l.label, <<"none">>)>>, <<PField(l.label, <<"NONE">>)>>,
     <<PField(l.label, <<"task 1">>)>>, <<PField(l.label, <<"None", "Task 1">>)>>,
     <<PField(l.label, <<"Task 1.5">>)>>}

ReplaceAt(ls, i, new) == SubSeq(ls, 1, i - 1) \o new \o SubSeq(ls, i + 1, Len(ls))

\* one task, one of its field lines rewritten
PlanFieldDocs ==
    \E i \in 1..Len(ValidFields(<<"None">>)) : \E new \in FieldVariants(ValidFields(<<"None">>)[i]) :
        file = PlanDoc(ValidHeaders,
                       <<TaskSection("1", ReplaceAt(ValidFields(<<"None">>), i, new))>>)

\* each header line present, present without a value, or absent
PlanHeaderDocs ==
    \E form \in [1..Len(ValidHeaders) -> {"value", "empty", "lower", "absent"}], tail \in BOOLEAN :
        file = PlanDoc(Flatten([i \in 1..Len(ValidHeaders) |->
                                   CASE form[i] = "value" -> <<ValidHeaders[i]>>
                                     [] form[i] = "empty" -> <<PField(ValidHeaders[i].label, <<>>)>>
                                     [] form[i] = "lower" ->
                                            <<PField(Lower(ValidHeaders[i].label), <<"text">>)>>
                                     [] OTHER -> <<>>]),
                       IF tail THEN <<TaskSection("1", ValidFields(<<"None">>))>> ELSE <<>>)

\* unreadable files, and texts without a task heading that counts
PlanFileDocs ==
    \/ \E st \in {"missing", "not_file", "not_utf8", "ok"} : file = [status |-> st, lines |-> <<>>]
    \/ \E ls \in {<<PText>>, <<PBlank>>, <<PTask("1", "")>> \o ValidFields(<<"None">>),
                  <<PField("Goal", <<>>)>>, <<PField("Goal", <<>>), PBlank>>,
                  <<PTask("1", "")>> \o ValidFields(<<"None">>)
                      \o TaskSection("2", ValidFields(<<"Task 1">>))} :
          file = [status |-> "ok", lines |-> ValidHeaders \o ls]
    \/ \E ls \in {<<PField("Goal", <<>>)>>, <<PField("Goal", <<>>), PBlank, PBlank>>,
                  <<PField("Goal", <<>>), PBlank, PText>>} :
          file = [status |-> "ok", lines |-> ls]

PlanDocs == PlanDepDocs \/ PlanFieldDocs \/ PlanHeaderDocs \/ PlanFileDocs

InitPlan ==
    /\ pc = "cp_read"
    /\ caller = "none"
    /\ PlanDocs
    /\ report = <<>>
    /\ outcome = "running"
    /\ rows = <<>>
    /\ issue_map = EmptyMap
    /\ dc_nodes = <<>>
    /\ dc_edges = EmptyDict
    /\ state = EmptyDict
    /\ parent = EmptyDict
    /\ stack = <<>>
    /\ dc_i = 1
    /\ cycle = NoCycle
    /\ entered = EmptyDict
    /\ run = 1
    /\ first_report = <<>>
    /\ first_outcome = "none"
    /\ set_order = <<>>
    /\ cli = NoCli

NextPlan == CheckPlanStep \/ DetectCycleStep

SpecPlan == InitPlan /\ [][NextPlan]_vars

----------------------------------------------------------------------------
(* detect_cycle called directly on a bounded graph. *)

Pairs == Universe \X Universe

\* edge lists of at most MaxEdges edges, grouped by source node
EdgePairLists ==
    {ps \in UNION {[1..n -> Pairs] : n \in 0..MaxEdges} :
        \A i \in 1..(Len(ps) - 1) : \E a, b \in 1..NumNodes :
            /\ ps[i][1] = Node(a) /\ ps[i + 1][1] = Node(b) /\ a <= b}

Adjacency(ps) == [n \in Universe |-> SelectSeqBy(ps, n, 1)]

\* the same edges as a dict that has a key only for the nodes with an edge
AdjacencyOfSources(ps) ==
    [n \in {ps[i][1] : i \in DOMAIN ps} |-> SelectSeqBy(ps, n, 1)]

InitCycle ==
    /\ pc = "dfs"
    /\ caller = "direct"
    /\ \E k \in 0..NumNodes : dc_nodes = [i \in 1..k |-> Node(i)]
    /\ \E ps \in EdgePairLists :
          dc_edges = Adjacency(ps) \/ dc_edges = AdjacencyOfSources(ps)
    /\ state = [n \in Range(dc_nodes) |-> 0]
    /\ parent = EmptyDict
    /\ stack = <<>>
    /\ dc_i = 1
    /\ cycle = NoCycle
    /\ entered = EmptyDict
    /\ file = NoFile
    /\ report = <<>>
    /\ outcome = "running"
    /\ rows = <<>>
    /\ issue_map = EmptyMap
    /\ run = 1
    /\ first_report = <<>>
    /\ first_outcome = "none"
    /\ set_order = <<>>
    /\ cli = NoCli

NextCycle == DetectCycleStep

SpecCycle == InitCycle /\ [][NextCycle]_vars

----------------------------------------------------------------------------
(* Graph facts stated without the search, to judge its answers. *)

Succ(ed, n) == Range(EdgesGet(ed, n))

RECURSIVE Closure(_, _)
\* every node reachable from the set S in zero or more edges
Closure(ed, S) ==
    LET T == S \cup UNION {Succ(ed, n) : n \in S}
    IN IF T = S THEN S ELSE Closure(ed, T)

\* reachable from n in one or more edges
ReachPlus(ed, n) == Closure(ed, Succ(ed, n))

OnCycle(ed, n) == n \in ReachPlus(ed, n)

\* every edge target is a node of N
EdgesInside(nodes, ed) == \A n \in DOMAIN ed : Succ(ed, n) \subseteq Range(nodes)

\* some cycle runs through the nodes of N
HasCycle(nodes, ed) == \E n \in Range(nodes) : OnCycle(ed, n)

\* some cycle can be reached from a node of N
CycleReachable(nodes, ed) == \E n \in Closure(ed, Range(nodes)) : OnCycle(ed, n)

ClosedWalk(p, ed) ==
    /\ Len(p) >= 2
    /\ p[1] = p[Len(p)]
    /\ \A i \in 1..(Len(p) - 1) : p[i + 1] \in Succ(ed, p[i])

DirectDone == caller = "direct" /\ pc = "dfs_done"

----------------------------------------------------------------------------
(* Claims *)

\* C1: when every edge target is a node of N and the graph has a cycle,
\* detect_cycle returns a path of length >= 2 whose first and last elements
\* are equal and whose consecutive pairs are edges of E; a self-loop on x
\* yields [x, x].
C1_ClosedWalkReturned ==
    (DirectDone /\ EdgesInside(dc_nodes, dc_edges) /\ HasCycle(dc_nodes, dc_edges))
        => /\ cycle # NoCycle
           /\ ClosedWalk(cycle, dc_edges)
           /\ (\A x \in Range(dc_nodes) :
                 (dc_nodes[1] = x /\ EdgesGet(dc_edges, x) # <<>> /\ EdgesGet(dc_edges, x)[1] = x)
                     => cycle = <<x, x>>)

\* C1 witness: a cycle through three nodes was returned
C1_Witness ==
    /\ DirectDone /\ EdgesInside(dc_nodes, dc_edges) /\ HasCycle(dc_nodes, dc_edges)
    /\ Len(cycle) = 4

\* C2: when no cycle can be reached from any node of N, detect_cycle returns
\* None: empty graph, no edges, disconnected graphs and DAGs in which a node
\* is reached along several paths included.
C2_AcyclicReturnsNone ==
    (DirectDone /\ ~CycleReachable(dc_nodes, dc_edges)) => cycle = NoCycle

\* C2 witness: an acyclic graph in which one node has two distinct
\* predecessors, both searched
C2_Witness ==
    /\ DirectDone /\ ~CycleReachable(dc_nodes, dc_edges)
    /\ \E n, p, q \in Range(dc_nodes) :
          /\ p # q
          /\ n \in Succ(dc_edges, p) /\ n \in Succ(dc_edges, q)
          /\ q \in Succ(dc_edges, p)

----------------------------------------------------------------------------
(* What a caller of a validator observes, and the snapshot as written. *)

\* the findings of the returned Report; nothing when an exception escaped
Emitted == IF outcome = "raised" THEN <<>> ELSE report

\* how many times the finding f occurs in rep
CountOf(rep, f) == Cardinality({i \in DOMAIN rep : rep[i] = f})

\* check_issues is over and the snapshot had issue rows after the meta row
IssuesFinished == pc = "done" /\ Len(rows) >= 2

IssueRowNumbers == 2..Len(rows)

RowId(i) == Get(rows[i].obj, "id")

\* the ids that issue rows of the snapshot carry
KnownIds == {RowId(i).s : i \in {j \in IssueRowNumbers : IsNonEmptyStr(RowId(j))}}

\* the entries of an array depends_on
DependsOnEntries(issue) ==
    IF Get(issue, "depends_on").k = "arr" THEN Get(issue, "depends_on").a ELSE <<>>

\* the well-formed dependencies written in the snapshot for the id n:
\* non-empty strings that name another known id
DocSucc(n) ==
    {d \in KnownIds \ {n} :
        \E i \in IssueRowNumbers :
            RowId(i) = JStr(n) /\ JStr(d) \in Range(DependsOnEntries(rows[i].obj))}

RECURSIVE SetToSeq(_)
SetToSeq(S) ==
    IF S = {} THEN <<>>
    ELSE LET x == CHOOSE y \in S : TRUE IN <<x>> \o SetToSeq(S \ {x})

DocEdges == [n \in KnownIds |-> SetToSeq(DocSucc(n))]

CycleErrors(rep) ==
    {i \in DOMAIN rep :
        rep[i].severity = "ERROR" /\ rep[i].message = "Issue dependency cycle detected"}

EcMessages ==
    {"Meta execution_context missing; using fallback context",
     "Meta execution_context missing key; fallback available",
     "Meta execution_context is not an object; fallback context will be used"}

\* the ERROR and WARN findings of a report, in order
NonInfo(rep) == SelectSeq(rep, LAMBDA f : f.severity # "INFO")

\* C3: for every readable issues snapshot, whatever JSON types its fields
\* hold, check_issues returns a Report and never raises.
C3_IssuesNeverRaises ==
    file.status = "ok" => outcome # "raised"

\* C4: running check_plan twice on the same unmodified document, in the same
\* or in another process, yields the same findings in the same order: the
\* cycle path does not depend on the iteration order of a set.
C4_SecondRunSameReport ==
    (run = 2 /\ pc = "done") => report = first_report

\* C5: for every issue row with a non-empty string id, a committed row gets
\* one ERROR per state field that is not "done" and one ERROR when blocked is
\* true; a row that is not committed gets none of these.
C5_CommittedConsistency ==
    IssuesFinished =>
        \A i \in IssueRowNumbers :
            IsNonEmptyStr(RowId(i)) =>
                LET issue == rows[i].obj
                    line_no == rows[i].line_no
                    committed == Get(issue, "git_state") = JStr("committed")
                IN /\ \A s \in Range(CommittedStates) :
                        CountOf(Emitted, ErrorF("Committed issue must have state=done", <<s>>, line_no))
                            = IF committed /\ Get(issue, s) # JStr("done") THEN 1 ELSE 0
                   /\ CountOf(Emitted, ErrorF("Committed issue cannot be blocked", <<>>, line_no))
                            = IF committed /\ Get(issue, "blocked") = JBool(TRUE) THEN 1 ELSE 0

\* C6: when issue rows share an id, every later occurrence gets a Duplicate
\* ERROR and the first occurrence stays the canonical record: the line and the
\* dependency edges kept for the id are those of the first occurrence.
C6_FirstOccurrenceCanonical ==
    (caller = "issues" /\ pc = "dfs_done") =>
        \A i \in IssueRowNumbers :
            IsNonEmptyStr(RowId(i)) =>
                LET id == RowId(i).s
                    first == \A j \in 2..(i - 1) : RowId(j) # RowId(i)
                IN /\ ~first =>
                        CountOf(report, ErrorF("Duplicate issue id", <<id>>, rows[i].line_no)) = 1
                   /\ first =>
                        /\ issue_map.val[id] = [line_no |-> rows[i].line_no, obj |-> rows[i].obj]
                        /\ \A d \in Succ(dc_edges, id) :
                              JStr(d) \in Range(DependsOnEntries(rows[i].obj))

\* C7: in check_plan a Depends On reference to the task itself or to an
\* unknown task is reported as its own ERROR and left out of the edges handed
\* to detect_cycle, so a task that depends only on itself gets the
\* self-dependency ERROR and no cycle ERROR.
C7_SelfAndUnknownExcluded ==
    (caller = "plan" /\ pc = "done" /\ run = 1 /\ dc_nodes # <<>>) =>
        LET tasks == ParseTasks(file.lines)
        IN /\ \A i \in DOMAIN tasks :
                LET task == tasks[i]
                    deps == ParseDepends(ExtractField(task.block, "Depends On"))
                IN /\ \A k \in DOMAIN deps :
                        /\ deps[k] = task.task_id =>
                              ErrorF("Task cannot depend on itself", <<task.task_id>>,
                                     task.start_line) \in Range(report)
                        /\ deps[k] \notin TaskIds(tasks) =>
                              ErrorF("Task depends on unknown Task", <<task.task_id, deps[k]>>,
                                     task.start_line) \in Range(report)
                   /\ deps = <<task.task_id>> =>
                        ErrorF("Task dependency cycle detected", <<task.task_id, task.task_id>>, 0)
                            \notin Range(report)
           /\ \A n \in DOMAIN dc_edges :
                \A d \in Succ(dc_edges, n) : d # n /\ d \in TaskIds(tasks)

\* C8: in check_issues, for every issue with an array depends_on, each entry
\* that is not a non-empty string, is the issue's own id, or names an id that
\* no row carries gets exactly one ERROR of its kind and is no edge; every
\* edge handed to detect_cycle joins two distinct known ids, and an issue that
\* depends only on itself gets no cycle ERROR.
C8_DependencyEntriesChecked ==
    /\ IssuesFinished =>
          \A i \in IssueRowNumbers :
              (IsNonEmptyStr(RowId(i)) /\ Get(rows[i].obj, "depends_on").k = "arr") =>
                  LET id == RowId(i)
                      deps == DependsOnEntries(rows[i].obj)
                      line_no == rows[i].line_no
                  IN /\ CountOf(Emitted, ErrorF("depends_on entries must be non-empty strings",
                                                <<>>, line_no))
                            = Cardinality({k \in DOMAIN deps : ~IsNonEmptyStr(deps[k])})
                     /\ CountOf(Emitted, ErrorF("Issue cannot depend on itself", <<>>, line_no))
                            = Cardinality({k \in DOMAIN deps : deps[k] = id})
                     /\ \A k \in DOMAIN deps :
                            (IsNonEmptyStr(deps[k]) /\ deps[k] # id /\ deps[k].s \notin KnownIds) =>
                                CountOf(Emitted, ErrorF("Issue depends on unknown id",
                                                        <<deps[k].s>>, line_no))
                                    = Cardinality({m \in DOMAIN deps : deps[m] = deps[k]})
                     /\ ErrorF("Issue dependency cycle detected", <<id.s, id.s>>, 0)
                            \notin Range(Emitted)
    /\ (caller = "issues" /\ pc \in {"dfs", "dfs_done"}) =>
          \A n \in DOMAIN dc_edges :
              \A d \in Succ(dc_edges, n) : d # n /\ {n, d} \subseteq KnownIds

\* C9: check_issues emits exactly one dependency-cycle ERROR when the graph
\* of the well-formed depends_on edges has a cycle, none when it has not; for
\* two issues that list each other the ERROR names both ids.
C9_OneCycleError ==
    IssuesFinished =>
        /\ Cardinality(CycleErrors(Emitted))
              = IF HasCycle(SetToSeq(KnownIds), DocEdges) THEN 1 ELSE 0
        /\ \A x, y \in KnownIds :
              (x # y /\ KnownIds = {x, y} /\ y \in DocSucc(x) /\ x \in DocSucc(y)) =>
                  \E i \in CycleErrors(Emitted) : {x, y} \subseteq Range(Emitted[i].arg)

\* C10: every finding of check_issues about the meta execution_context has
\* severity INFO, and the ERROR and WARN findings of the meta row are the same
\* whatever value execution_context holds.
C10_ExecutionContextOnlyInfo ==
    /\ \A i \in DOMAIN report : report[i].message \in EcMessages => report[i].severity = "INFO"
    /\ pc = "ci_count" =>
          \A v \in ContextValues, branch \in Branches :
              NonInfo(report)
                  = NonInfo(ParseLines(NonBlank(file.lines), 1).findings
                            \o MetaFindings(With(rows[1].obj, "execution_context", v), branch,
                                            rows[1].line_no))

\* C10 witness: a finished run whose report holds a finding about the
\* execution_context and no ERROR
C10_Witness ==
    /\ pc = "done" /\ outcome = "returned" /\ Errors(report) = 0
    /\ \E i \in DOMAIN report : report[i].message \in EcMessages

LineErrorMessages == {"Invalid JSON", "JSONL line must be a JSON object"}

\* the findings that are not about a broken line, without their locations
OtherFindings(rep) ==
    LET kept == SelectSeq(rep, LAMBDA f : f.message \notin LineErrorMessages)
    IN [i \in DOMAIN kept |->
           [severity |-> kept[i].severity, message |-> kept[i].message, arg |-> kept[i].arg]]

\* the findings at line idx that are about a broken line
LineErrorsAt(rep, idx) ==
    {i \in DOMAIN rep : rep[i].message \in LineErrorMessages /\ rep[i].line = idx}

\* what the caller of the first call received
FirstEmitted == IF first_outcome = "raised" THEN <<>> ELSE first_report

\* C11: each non-blank line that is not JSON, or is JSON but no object, gets
\* exactly one ERROR at its line and is dropped; every other finding has the
\* severity and message it has for the snapshot without those lines.
C11_BrokenLinesOnlyAddLineErrors ==
    /\ (pc = "done" /\ run = 1 /\ file.status = "ok") =>
          \A idx \in DOMAIN NonBlank(file.lines) :
              /\ Cardinality(LineErrorsAt(Emitted, idx))
                    = IF IsBadLine(NonBlank(file.lines)[idx]) THEN 1 ELSE 0
              /\ \A i \in LineErrorsAt(Emitted, idx) : Emitted[i].severity = "ERROR"
    /\ (pc = "done" /\ run = 2) => OtherFindings(FirstEmitted) = OtherFindings(Emitted)

\* the total_issues-mismatch ERROR findings of a report
MismatchErrors(rep) ==
    {i \in DOMAIN rep :
        rep[i].severity = "ERROR" /\ rep[i].message = "Meta total_issues does not match actual"}

\* the meta row declares an integer total_issues that is not the number of
\* issue rows after it
TotalMismatch ==
    /\ Get(rows[1].obj, "total_issues").k = "int"
    /\ Get(rows[1].obj, "total_issues").n # Len(rows) - 1

\* C12: when total_issues is an integer other than the number of issue rows,
\* check_issues emits exactly one mismatch ERROR and still runs the per-issue
\* checks, the dependency checks and the cycle search; when it equals the
\* number, there is no such ERROR.
C12_TotalIssuesMismatchNotFatal ==
    (IssuesFinished /\ run = 1 /\ Get(rows[1].obj, "total_issues").k = "int") =>
        /\ Cardinality(MismatchErrors(Emitted)) = IF TotalMismatch THEN 1 ELSE 0
        /\ TotalMismatch => (outcome = "returned" /\ caller = "issues" /\ pc = "done")

----------------------------------------------------------------------------
(* Either validator, called once on a document. *)

InitEither ==
    /\ \/ pc = "cp_read" /\ PlanDocs
       \/ pc = "ci_read" /\ (FileDocs \/ DefectDocs \/ MetaDocs)
    /\ caller = "none"
    /\ report = <<>>
    /\ outcome = "running"
    /\ rows = <<>>
    /\ issue_map = EmptyMap
    /\ dc_nodes = <<>>
    /\ dc_edges = EmptyDict
    /\ state = EmptyDict
    /\ parent = EmptyDict
    /\ stack = <<>>
    /\ dc_i = 1
    /\ cycle = NoCycle
    /\ entered = EmptyDict
    /\ run = 1
    /\ first_report = <<>>
    /\ first_outcome = "none"
    /\ set_order = <<>>
    /\ cli = NoCli

NextEither == CpRead \/ CpTasks \/ CpCycle \/ CheckIssuesStep \/ DetectCycleStep

SpecEither == InitEither /\ [][NextEither]_vars

\* read_text returned None for the file
Unreadable == file.status \in {"missing", "not_file", "not_utf8"}

\* C13: when the source does not exist, is no regular file or is not UTF-8,
\* check_plan and check_issues return at once with a Report of exactly one
\* finding, an ERROR about the file, and nothing from any later check.
C13_UnreadableFailsFast ==
    Unreadable =>
        /\ pc \in {"cp_read", "ci_read", "done"}
        /\ caller = "none" /\ rows = <<>> /\ dc_nodes = <<>>
        /\ pc = "done" =>
              /\ outcome = "returned"
              /\ Len(report) = 1
              /\ report[1].severity = "ERROR"
              /\ report[1].line = 0
              /\ report[1].message \in {"File does not exist", "Path is not a file",
                                        "File is not UTF-8 decodable"}

\* C13 witness: a validator came back from a file that is not UTF-8
C13_Witness ==
    pc = "done" /\ file.status = "not_utf8" /\ Len(report) = 1

----------------------------------------------------------------------------
(* Plans: no task section, valid plans, the Depends On field. *)

\* the text has no line of the form "### Task <id>: <title>"
NoTaskLine == \A i \in 1..Len(file.lines) : ~IsTaskHeader(file.lines[i])

\* the missing-header ERRORs of rep about label
HeaderErrors(rep, label) ==
    {i \in DOMAIN rep :
        /\ rep[i].severity = "ERROR"
        /\ rep[i].message = "Missing required header"
        /\ rep[i].arg = <<label>>}

\* no line of the text carries the label
HeaderAbsent(label) ==
    \A i \in 1..Len(file.lines) : ~FieldMatches(file.lines[i], label)

\* a line of the text carries the label and a value
HeaderWithValue(label) ==
    \E i \in 1..Len(file.lines) :
        FieldMatches(file.lines[i], label) /\ file.lines[i].value # <<>>

\* C14: for a readable plan without a task heading, check_plan never reaches
\* the task loop or the cycle search, and its Report is the missing-header
\* ERRORs, one for each header the text does not have and none for a header
\* it has with a value, followed by one 'No task section found' ERROR, which
\* is the last finding; there is no other finding.
C14_NoTaskSectionIsTerminal ==
    (file.status = "ok" /\ NoTaskLine) =>
        /\ pc \in {"cp_read", "done"}
        /\ caller = "none" /\ dc_nodes = <<>>
        /\ pc = "done" =>
              /\ outcome = "returned"
              /\ Len(report) >= 1
              /\ report[Len(report)] = ErrorF("No task section found", <<>>, 0)
              /\ \A i \in 1..(Len(report) - 1) :
                    /\ report[i].severity = "ERROR"
                    /\ report[i].message = "Missing required header"
                    /\ \E k \in 1..Len(HeaderLabels) : report[i].arg = <<HeaderLabels[k]>>
                    /\ \A j \in 1..(i - 1) : report[j].arg # report[i].arg
              /\ \A k \in 1..Len(HeaderLabels) :
                    /\ HeaderAbsent(HeaderLabels[k]) =>
                          Cardinality(HeaderErrors(report, HeaderLabels[k])) = 1
                    /\ HeaderWithValue(HeaderLabels[k]) =>
                          HeaderErrors(report, HeaderLabels[k]) = {}

\* C14 witness: a text without task heading that lacks two headers came back
C14_Witness ==
    /\ pc = "done" /\ file.status = "ok" /\ NoTaskLine
    /\ HeaderAbsent("Architecture") /\ HeaderAbsent("Tech Stack")
    /\ HeaderWithValue("Goal")
    /\ Len(report) = 3

\* the task sections of the text
PlanTasks == ParseTasks(file.lines)

\* the lines of a block that carry the field
FieldLines(block, field_name) == {i \in 1..Len(block) : FieldMatches(block[i], field_name)}

\* the block has the field, and each line written for it gives it a value
FieldWritten(block, field_name) ==
    /\ FieldLines(block, field_name) # {}
    /\ \A i \in FieldLines(block, field_name) : block[i].value # <<>>

\* the ids that the phrases of a value refer to as "Task <id>"
RefsOf(value) == {TaskRef(value[i]) : i \in 1..Len(value)} \ {""}

\* the ids of the task headings of the text
PlanIds == {PlanTasks[i].task_id : i \in 1..Len(PlanTasks)}

\* a Depends On value that is the word None, or that names tasks, all of them
\* other tasks of the plan
DependsOnOthers(task, value) ==
    \/ value \in {<<"None">>, <<"none">>, <<"NONE">>}
    \/ /\ RefsOf(value) # {}
       /\ RefsOf(value) \subseteq PlanIds \ {task.task_id}

\* every task id that a section headed n names in a Depends On line
PlanSucc(n) ==
    UNION {UNION {RefsOf(PlanTasks[t].block[i].value) :
                     i \in FieldLines(PlanTasks[t].block, "Depends On")} :
              t \in {u \in 1..Len(PlanTasks) : PlanTasks[u].task_id = n}}

PlanEdges == [n \in PlanIds |-> SetToSeq(PlanSucc(n))]

\* the plan of the valid-plan scenario: four headers with values and at least
\* one task, every task with its six fields written, a priority of the enum,
\* dependencies on None or on other tasks only, no cycle among them, and a
\* Files line
ValidPlan ==
    /\ file.status = "ok"
    /\ \A k \in 1..Len(HeaderLabels) : HeaderWithValue(HeaderLabels[k])
    /\ Len(PlanTasks) >= 1
    /\ \A t \in 1..Len(PlanTasks) :
          LET block == PlanTasks[t].block
          IN /\ \A k \in 1..Len(RequiredTaskFields) : FieldWritten(block, RequiredTaskFields[k])
             /\ \A i \in FieldLines(block, "Priority") :
                    block[i].value \in {<<"P0">>, <<"P1">>, <<"P2">>}
             /\ \A i \in FieldLines(block, "Depends On") :
                    DependsOnOthers(PlanTasks[t], block[i].value)
             /\ \E i \in 1..Len(block) : block[i].kind = "field" /\ block[i].label = "Files"
    /\ \A n \in PlanIds : ~OnCycle(PlanEdges, n)

DependsOnValue(task) ==
    LET ls == FieldLines(task.block, "Depends On")
    IN IF ls = {} THEN <<>>
       ELSE task.block[CHOOSE i \in ls : \A j \in ls : i <= j].value

\* the phrases of a value that are references to a task, in order of
\* appearance, each as the id it names
RefSeq(value) ==
    LET named == SelectSeq(value, LAMBDA ph : TaskRef(ph) # "")
    IN [k \in 1..Len(named) |-> TaskRef(named[k])]

\* the invalid-Depends-On ERRORs of rep for the task that starts at the line
InvalidDependsErrors(rep, start_line) ==
    {i \in DOMAIN rep :
        /\ rep[i].severity = "ERROR"
        /\ rep[i].message = "Task has invalid Depends On"
        /\ rep[i].line = start_line}

\* no later section has the id of section t
LastOfItsId(t) ==
    \A u \in (t + 1)..Len(PlanTasks) : PlanTasks[u].task_id # PlanTasks[t].task_id

\* C16: once check_plan has been through its tasks, for every task: a Depends
\* On value that is empty or the word none in any letter case gives no
\* dependency and no invalid-Depends-On ERROR; another value without any
\* reference of the form Task <id> gives exactly one invalid-Depends-On ERROR
\* for the task; in every other case there is no such ERROR and the
\* dependencies recorded for the task id are the ids referred to, in their
\* order of appearance.
C16_DependsOnParsing ==
    (file.status = "ok" /\ caller = "plan" /\ pc \notin {"cp_read", "cp_tasks"}) =>
        \A t \in 1..Len(PlanTasks) :
            LET raw == DependsOnValue(PlanTasks[t])
                none == raw \in {<<>>, <<"None">>, <<"none">>, <<"NONE">>}
                errs == InvalidDependsErrors(report, PlanTasks[t].start_line)
            IN /\ Cardinality(errs) = IF ~none /\ RefSeq(raw) = <<>> THEN 1 ELSE 0
               /\ \A i \in errs : report[i].arg = <<PlanTasks[t].task_id>> \o raw
               /\ LastOfItsId(t) =>
                     EdgesGet(dc_edges, PlanTasks[t].task_id)
                         = IF none THEN <<>> ELSE RefSeq(raw)

\* C16 witness: a plan came back whose first task has a Depends On without
\* any reference and whose second task depends on the first
C16_Witness ==
    /\ pc = "done" /\ caller = "plan" /\ Len(PlanTasks) = 2
    /\ DependsOnValue(PlanTasks[1]) = <<"TBD">>
    /\ InvalidDependsErrors(report, PlanTasks[1].start_line) # {}
    /\ EdgesGet(dc_edges, PlanTasks[2].task_id) = <<PlanTasks[1].task_id>>

----------------------------------------------------------------------------
(* The meta row: schema_version and archived. *)

\* check_issues is over for a snapshot with a first row
MetaChecked == pc = "done" /\ file.status = "ok" /\ Len(rows) >= 1

\* The findings of rep that name the key.  The message texts of check_issues
\* are fixed and none of them holds the word schema_version or archived; the
\* name of a key of the snapshot enters a message only as the field that a
\* row is missing.
FindingsNaming(rep, key) ==
    {i \in DOMAIN rep :
        /\ rep[i].message \in {"Meta missing field", "Issue missing field"}
        /\ rep[i].arg = <<key>>}

\* C17: when the meta row has no schema_version, check_issues emits at least
\* one finding that names schema_version, and every such finding is a WARN.
C17_MissingSchemaVersionWarns ==
    (MetaChecked /\ "schema_version" \notin DOMAIN rows[1].obj) =>
        /\ FindingsNaming(Emitted, "schema_version") # {}
        /\ \A i \in FindingsNaming(Emitted, "schema_version") : Emitted[i].severity = "WARN"

\* C18: when the meta row has a schema_version that is not a recognized
\* version (999), check_issues emits at least one ERROR that names
\* schema_version; when it is the recognized version 2, no finding names
\* schema_version.
C18_SchemaVersionChecked ==
    /\ (MetaChecked /\ Get(rows[1].obj, "schema_version") = JInt(999)) =>
          \E i \in FindingsNaming(Emitted, "schema_version") : Emitted[i].severity = "ERROR"
    /\ (MetaChecked /\ Get(rows[1].obj, "schema_version") = JInt(2)) =>
          FindingsNaming(Emitted, "schema_version") = {}

\* C19: when the meta row has archived set to true, check_issues emits at
\* least one WARN that notes the snapshot is archived.
C19_ArchivedWarns ==
    (MetaChecked /\ Get(rows[1].obj, "archived") = JBool(TRUE)) =>
        \E i \in FindingsNaming(Emitted, "archived") : Emitted[i].severity = "WARN"

----------------------------------------------------------------------------
(* Report: the derived counts. *)

\* the findings of rep that have the severity
WithSeverity(rep, sev) == {i \in DOMAIN rep : rep[i].severity = sev}

\* C20: on a Report, a call of error raises errors by one and leaves warnings
\* alone, a call of warn raises warnings by one and leaves errors alone, and a
\* call of info changes neither; after every call errors is the number of
\* findings with severity ERROR, warnings the number with severity WARN, and
\* errors + warnings <= len(findings).
C20_ReportCounts ==
    [][/\ ReportError =>
             Errors(report') = Errors(report) + 1 /\ Warnings(report') = Warnings(report)
       /\ ReportWarn =>
             Warnings(report') = Warnings(report) + 1 /\ Errors(report') = Errors(report)
       /\ ReportInfo =>
             Errors(report') = Errors(report) /\ Warnings(report') = Warnings(report)
       /\ Len(report') = Len(report) + 1
       /\ Errors(report') = Cardinality(WithSeverity(report', "ERROR"))
       /\ Warnings(report') = Cardinality(WithSeverity(report', "WARN"))
       /\ Errors(report') + Warnings(report') <= Len(report')]_vars

\* C20 witness: a Report after one call each of error, warn and info
C20_Witness ==
    /\ pc = "report" /\ Len(report) = 3
    /\ \A sev \in {"ERROR", "WARN", "INFO"} : Cardinality(WithSeverity(report, sev)) = 1
    /\ Errors(report) = 1 /\ Warnings(report) = 1

----------------------------------------------------------------------------
(* Report: the findings sequence only grows at its end. *)

\* a Report used directly, or one validation pass of either validator
InitPasses == InitEither \/ InitReport

NextPasses == NextEither \/ NextReport

SpecPasses == InitPasses /\ [][NextPasses]_vars

\* s is the beginning of t
IsPrefix(s, t) == Len(s) <= Len(t) /\ SubSeq(t, 1, Len(s)) = s

\* C21: every call of error, warn or info appends exactly one Finding, of
\* that severity, at the end of the findings and leaves the earlier ones as
\* they were and in their order; every step of check_plan and check_issues
\* leaves the findings already added as the beginning of the new findings, so
\* the number of findings never decreases.
C21_FindingsAppendOnly ==
    [][/\ IsPrefix(report, report')
       /\ \A sev \in {"ERROR", "WARN", "INFO"} :
             (\/ sev = "ERROR" /\ ReportError
              \/ sev = "WARN" /\ ReportWarn
              \/ sev = "INFO" /\ ReportInfo) =>
                 /\ Len(report') = Len(report) + 1
                 /\ report'[Len(report')].severity = sev]_vars

\* C21 witness: check_issues came back from the cycle search with findings
\* of several of its steps, the first of them about the type of the meta row
C21_Witness ==
    /\ pc = "done" /\ outcome = "returned" /\ caller = "issues"
    /\ Len(report) >= 3
    /\ report[1].message = "First line must be type=meta"
    /\ report[Len(report)].message # "First line must be type=meta"

----------------------------------------------------------------------------
(* The type of the first row. *)

\* the findings check_issues emitted about the type of the first row
TypeMetaErrors(rep) ==
    {i \in DOMAIN rep :
        rep[i] = ErrorF("First line must be type=meta", <<>>, rows[1].line_no)}

\* the row at position i of rows has a priority that is a string outside the
\* enum, and an id that lets the loop go on to the priority
HasWrongPriority(i) ==
    /\ IsNonEmptyStr(RowId(i))
    /\ Get(rows[i].obj, "priority").k = "str"
    /\ Get(rows[i].obj, "priority").s \notin {"P0", "P1", "P2"}

\* C22: when the first parsed row has a type other than "meta", or none,
\* check_issues emits an ERROR that refers to type=meta and goes on: the meta
\* row still gets an ERROR for each required field it lacks, and when issue
\* rows follow, check_issues returns after the issue loop, the dependency
\* pass and the cycle search, each row with a priority outside the enum
\* having its Invalid-priority ERROR.
C22_WrongMetaTypeNotFatal ==
    (MetaChecked /\ Get(rows[1].obj, "type") # JStr("meta")) =>
        /\ TypeMetaErrors(Emitted) # {}
        /\ \A k \in 1..Len(RequiredMetaFields) :
              RequiredMetaFields[k] \notin DOMAIN rows[1].obj =>
                  \E i \in DOMAIN Emitted :
                      Emitted[i] = ErrorF("Meta missing field", <<RequiredMetaFields[k]>>,
                                          rows[1].line_no)
        /\ Len(rows) >= 2 =>
              /\ outcome = "returned" /\ caller = "issues"
              /\ \A r \in IssueRowNumbers :
                    HasWrongPriority(r) =>
                        \E i \in DOMAIN Emitted :
                            /\ Emitted[i].message = "Invalid priority"
                            /\ Emitted[i].line = rows[r].line_no

----------------------------------------------------------------------------
(* The command line: decide_exit_code, resolve_plan_report,
   resolve_issues_report, print_reports, run and main. *)

\* the largest error and warning count handed to decide_exit_code directly
MaxCount == 4

\* no exit code yet
NoExit == "none"

FailOnChoices == {"error", "warning", "never"}

\* decide_exit_code with the warnings looked at before the errors
DecideExitCodeWarningsFirst(errors, warnings, fail_on) ==
    IF fail_on = "never" THEN 0
    ELSE IF fail_on = "warning" /\ warnings > 0 THEN 2
    ELSE IF errors > 0 THEN 1
    ELSE 0

\* decide_exit_code
DecideExitCode(errors, warnings, fail_on) ==
    IF fail_on = "never" THEN 0
    ELSE IF errors > 0 THEN 1
    ELSE IF fail_on = "warning" /\ warnings > 0 THEN 2
    ELSE 0

\* decide_exit_code called on the counts and the threshold
InitExit ==
    /\ pc = "decide"
    /\ \E errors \in 0..MaxCount, warnings \in 0..MaxCount, fail_on \in FailOnChoices :
          cli = [stage |-> "decide", errors |-> errors, warnings |-> warnings,
                 fail_on |-> fail_on, exit_code |-> NoExit]
    /\ caller = "none"
    /\ file = NoFile
    /\ report = <<>>
    /\ outcome = "running"
    /\ rows = <<>>
    /\ issue_map = EmptyMap
    /\ dc_nodes = <<>>
    /\ dc_edges = EmptyDict
    /\ state = EmptyDict
    /\ parent = EmptyDict
    /\ stack = <<>>
    /\ dc_i = 1
    /\ cycle = NoCycle
    /\ entered = EmptyDict
    /\ run = 1
    /\ first_report = <<>>
    /\ first_outcome = "none"
    /\ set_order = <<>>

\* return decide_exit_code(errors, warnings, fail_on)
ExitDecide ==
    /\ pc = "decide"
    /\ cli' = [cli EXCEPT !.stage = "exited",
                          !.exit_code = DecideExitCode(cli.errors, cli.warnings, cli.fail_on)]
    /\ pc' = "exited"
    /\ UNCHANGED <<caller, dcVars, file, report, outcome, ciVars, run, first_report,
                   first_outcome, set_order>>

NextExit == ExitDecide

SpecExit == InitExit /\ [][NextExit]_vars

\* C23: decide_exit_code returns 0 whenever fail_on is "never"; otherwise 1
\* whenever errors > 0, whatever the warnings; otherwise 2 exactly when
\* fail_on is "warning" and warnings > 0; otherwise 0.
C23_ExitCodeTable ==
    pc = "exited" =>
        /\ cli.fail_on = "never" => cli.exit_code = 0
        /\ (cli.fail_on # "never" /\ cli.errors > 0) => cli.exit_code = 1
        /\ (cli.fail_on # "never" /\ cli.errors = 0) =>
              /\ cli.exit_code \in {0, 2}
              /\ cli.exit_code = 2 <=> (cli.fail_on = "warning" /\ cli.warnings > 0)

\* C23 witness: errors and warnings together under fail_on = "warning" gave 1
C23_Witness ==
    /\ pc = "exited" /\ cli.fail_on = "warning"
    /\ cli.errors > 0 /\ cli.warnings > 0
    /\ cli.exit_code = 1

----------------------------------------------------------------------------
(* run and main: the reports of a command line run and its exit code. *)

Modes == {"skills", "plan", "issues", "full"}

\* what run leaves alone while it is not inside a validator
runRest == <<caller, dcVars, ciVars, run, first_report, first_outcome, set_order>>

\* Report(name) with its findings
NamedReport(name, findings) == [name |-> name, findings |-> findings]

\* resolve_plan_report without a file, the required flag not looked at
AbsentPlanFindingsAlwaysError(required) ==
    <<ErrorF("No plan file found under docs/plans", <<>>, 0)>>

\* resolve_plan_report: plan_arg is None and latest_file found no candidate
AbsentPlanFindings(required) ==
    IF required
    THEN <<ErrorF("No plan file found under docs/plans", <<>>, 0)>>
    ELSE <<InfoF("Plan check skipped: no file under docs/plans", <<>>, 0)>>

\* resolve_issues_report: issues_arg is None and latest_file found no candidate
AbsentIssuesFindings(required) ==
    IF required
    THEN <<ErrorF("No issues snapshot found under docs/issues/", <<>>, 0)>>
    ELSE <<InfoF("Issues check skipped: no file under docs/issues/", <<>>, 0)>>

RECURSIVE SumErrors(_)
\* print_reports: error_count += report.errors
SumErrors(reports) ==
    IF reports = <<>> THEN 0 ELSE Errors(Head(reports).findings) + SumErrors(Tail(reports))

RECURSIVE SumWarnings(_)
\* print_reports: warning_count += report.warnings
SumWarnings(reports) ==
    IF reports = <<>> THEN 0 ELSE Warnings(Head(reports).findings) + SumWarnings(Tail(reports))

\* what check_skills can report: nothing, or a marker that a skill file lacks
SkillsFindings == {<<>>, <<ErrorF("Missing workflow contract marker", <<>>, 0)>>}

\* the plan that --plan or the newest docs/plans/*.md names: none, a path
\* that does not exist, a text without tasks, or two valid tasks
RunPlanFiles ==
    {NoFile,
     [status |-> "missing", lines |-> <<>>],
     PlanDoc(ValidHeaders, <<>>),
     PlanDoc(ValidHeaders, <<TaskSection("1", ValidFields(<<"Task 2">>)),
                             TaskSection("2", ValidFields(<<"None">>))>>)}

\* the snapshot that --issues or the newest docs/issues/*.jsonl names: none,
\* a path that does not exist, a valid snapshot, one with a cycle, and one
\* with a list for a priority
RunIssuesFiles ==
    {NoFile,
     [status |-> "missing", lines |-> <<>>],
     Snapshot(ValidMeta(1), <<ValidIssue(JStr("A"))>>),
     Snapshot(ValidMeta(2),
              <<[ValidIssue(JStr("A")) EXCEPT !["depends_on"] = JArr(<<JStr("B")>>)],
                [ValidIssue(JStr("B")) EXCEPT !["depends_on"] = JArr(<<JStr("A")>>)]>>),
     Snapshot(ValidMeta(1), <<[ValidIssue(JStr("B")) EXCEPT !["priority"] = JArr(<<>>)]>>)}

\* parser.parse_args(): the arguments of one invocation and what the project
\* holds for it
RunArgs ==
    \E mode \in Modes, include_skills \in BOOLEAN, require_plan \in BOOLEAN,
       require_issues \in BOOLEAN, fail_on \in FailOnChoices, strict_warnings \in BOOLEAN,
       plan \in RunPlanFiles, issues \in RunIssuesFiles, skills \in SkillsFindings :
        cli = [stage |-> "start",
               args |-> [mode |-> mode, include_skills |-> include_skills,
                         require_plan |-> require_plan, require_issues |-> require_issues,
                         fail_on |-> fail_on, strict_warnings |-> strict_warnings,
                         plan |-> plan, issues |-> issues, skills |-> skills],
               reports |-> <<>>, errors |-> 0, warnings |-> 0,
               fail_on |-> fail_on, exit_code |-> NoExit]

InitRun ==
    /\ pc = "run"
    /\ RunArgs
    /\ caller = "none"
    /\ file = NoFile
    /\ report = <<>>
    /\ outcome = "running"
    /\ rows = <<>>
    /\ issue_map = EmptyMap
    /\ dc_nodes = <<>>
    /\ dc_edges = EmptyDict
    /\ state = EmptyDict
    /\ parent = EmptyDict
    /\ stack = <<>>
    /\ dc_i = 1
    /\ cycle = NoCycle
    /\ entered = EmptyDict
    /\ run = 1
    /\ first_report = <<>>
    /\ first_outcome = "none"
    /\ set_order = <<>>

\* the stage after the plan report
AfterPlan == IF cli.args.mode = "full" THEN "issues" ELSE "print"

\* fail_on, and the skills report of mode skills or of full with --include-skills
RunStart ==
    /\ pc = "run" /\ cli.stage = "start"
    /\ cli' = [cli EXCEPT
                 !.fail_on = IF cli.args.strict_warnings THEN "warning" ELSE cli.args.fail_on,
                 !.reports = IF \/ cli.args.mode = "skills"
                                \/ cli.args.mode = "full" /\ cli.args.include_skills
                             THEN <<NamedReport("skills", cli.args.skills)>>
                             ELSE <<>>,
                 !.stage = CASE cli.args.mode = "skills" -> "print"
                             [] cli.args.mode = "issues" -> "issues"
                             [] OTHER -> "plan"]
    /\ UNCHANGED <<pc, file, report, outcome, runRest>>

\* resolve_plan_report: required in mode plan, args.require_plan in mode full
RunPlan ==
    /\ pc = "run" /\ cli.stage = "plan"
    /\ LET required == cli.args.mode = "plan" \/ cli.args.require_plan
       IN IF cli.args.plan = NoFile
          THEN /\ cli' = [cli EXCEPT
                            !.reports = Append(@, NamedReport("plan",
                                                              AbsentPlanFindings(required))),
                            !.stage = AfterPlan]
               /\ UNCHANGED <<pc, file, report, outcome>>
          ELSE /\ cli' = [cli EXCEPT !.stage = "plan_call"]
               /\ file' = cli.args.plan
               /\ report' = <<>>
               /\ outcome' = "running"
               /\ pc' = "cp_read"
    /\ UNCHANGED runRest

\* check_plan returned its Report
RunPlanBack ==
    /\ pc = "done" /\ cli.stage = "plan_call"
    /\ cli' = [cli EXCEPT !.reports = Append(@, NamedReport("plan", report)),
                          !.stage = AfterPlan]
    /\ pc' = "run"
    /\ UNCHANGED <<file, report, outcome, runRest>>

\* resolve_issues_report: required in mode issues, args.require_issues in mode full
RunIssues ==
    /\ pc = "run" /\ cli.stage = "issues"
    /\ LET required == cli.args.mode = "issues" \/ cli.args.require_issues
       IN IF cli.args.issues = NoFile
          THEN /\ cli' = [cli EXCEPT
                            !.reports = Append(@, NamedReport("issues",
                                                              AbsentIssuesFindings(required))),
                            !.stage = "print"]
               /\ UNCHANGED <<pc, file, report, outcome>>
          ELSE /\ cli' = [cli EXCEPT !.stage = "issues_call"]
               /\ file' = cli.args.issues
               /\ report' = <<>>
               /\ outcome' = "running"
               /\ pc' = "ci_read"
    /\ UNCHANGED runRest

\* check_issues returned its Report, or raised: main catches the exception
\* and returns 3
RunIssuesBack ==
    /\ pc = "done" /\ cli.stage = "issues_call"
    /\ IF outcome = "raised"
       THEN /\ cli' = [cli EXCEPT !.stage = "exited", !.exit_code = 3]
            /\ pc' = "exited"
       ELSE /\ cli' = [cli EXCEPT !.reports = Append(@, NamedReport("issues", report)),
                                  !.stage = "print"]
            /\ pc' = "run"
    /\ UNCHANGED <<file, report, outcome, runRest>>

\* errors, warnings = print_reports(reports); return decide_exit_code(...)
RunPrint ==
    /\ pc = "run" /\ cli.stage = "print"
    /\ cli' = [cli EXCEPT
                 !.errors = SumErrors(cli.reports),
                 !.warnings = SumWarnings(cli.reports),
                 !.exit_code = DecideExitCode(SumErrors(cli.reports), SumWarnings(cli.reports),
                                              cli.fail_on),
                 !.stage = "exited"]
    /\ pc' = "exited"
    /\ UNCHANGED <<file, report, outcome, runRest>>

RunStep ==
    \/ RunStart
    \/ RunPlan
    \/ RunPlanBack
    \/ RunIssues
    \/ RunIssuesBack
    \/ RunPrint

NextRun == RunStep \/ CpRead \/ CpTasks \/ CpCycle \/ CheckIssuesStep \/ DetectCycleStep

SpecRun == InitRun /\ [][NextRun]_vars

\* the findings of the report that run collected under the name
FindingsOf(name) ==
    LET i == CHOOSE j \in DOMAIN cli.reports : cli.reports[j].name = name
    IN cli.reports[i].findings

NoPlanFile == cli.args.plan = NoFile
NoIssuesFile == cli.args.issues = NoFile

\* the plan, or the issues snapshot, must be there
PlanRequired == cli.args.mode = "plan" \/ (cli.args.mode = "full" /\ cli.args.require_plan)
IssuesRequired == cli.args.mode = "issues" \/ (cli.args.mode = "full" /\ cli.args.require_issues)

\* run looks for a plan, or for an issues snapshot
PlanWanted == cli.args.mode \in {"plan", "full"}
IssuesWanted == cli.args.mode \in {"issues", "full"}

\* the skills check is not part of the run, or it found nothing
SkillsClean ==
    \/ cli.args.mode \in {"plan", "issues"}
    \/ cli.args.mode = "full" /\ ~cli.args.include_skills
    \/ cli.args.skills = <<>>

\* run is over
RunOver == pc = "exited" /\ cli.stage = "exited"

\* C24: when no plan is given or found, the plan report of a full run without
\* --require-plan is exactly one INFO finding that the check was skipped, and
\* that of mode plan or of a full run with --require-plan exactly one ERROR;
\* the same holds for the issues snapshot.  A full run without either file,
\* neither required (and no skills ERROR), exits with 0; a run from which a
\* required file and every other file it looks for is absent exits with 1
\* unless fail_on is never.
C24_AbsentFilesBlockOnlyWhenRequired ==
    RunOver =>
        /\ (PlanWanted /\ NoPlanFile) =>
              /\ Len(FindingsOf("plan")) = 1
              /\ FindingsOf("plan")[1].severity = IF PlanRequired THEN "ERROR" ELSE "INFO"
              /\ FindingsOf("plan")[1].message =
                    IF PlanRequired THEN "No plan file found under docs/plans"
                    ELSE "Plan check skipped: no file under docs/plans"
        /\ (IssuesWanted /\ NoIssuesFile) =>
              /\ Len(FindingsOf("issues")) = 1
              /\ FindingsOf("issues")[1].severity = IF IssuesRequired THEN "ERROR" ELSE "INFO"
              /\ FindingsOf("issues")[1].message =
                    IF IssuesRequired THEN "No issues snapshot found under docs/issues/"
                    ELSE "Issues check skipped: no file under docs/issues/"
        /\ (cli.args.mode = "full" /\ NoPlanFile /\ NoIssuesFile
                /\ ~PlanRequired /\ ~IssuesRequired /\ SkillsClean) =>
              cli.exit_code = 0
        /\ ((PlanWanted => NoPlanFile) /\ (IssuesWanted => NoIssuesFile)
                /\ (PlanRequired \/ IssuesRequired) /\ cli.fail_on # "never") =>
              cli.exit_code = 1

\* C24 witness: a full run under fail-on error without files and without
\* --require flags ended with two reports and exit code 0
C24_Witness ==
    /\ RunOver /\ cli.args.mode = "full" /\ cli.fail_on = "error"
    /\ NoPlanFile /\ NoIssuesFile /\ ~PlanRequired /\ ~IssuesRequired
    /\ Len(cli.reports) = 2
    /\ cli.exit_code = 0

----------------------------------------------------------------------------
(* Issue rows: the enum checks of each row. *)

\* row r has its Invalid-priority ERROR
PriorityFlagged(r) ==
    \E i \in DOMAIN Emitted :
        Emitted[i].message = "Invalid priority" /\ Emitted[i].line = rows[r].line_no

\* row r has its ERROR for the status field
StatusFlagged(r, field_name) ==
    \E i \in DOMAIN Emitted :
        /\ Emitted[i].message = "Invalid status"
        /\ Emitted[i].arg[1] = field_name
        /\ Emitted[i].line = rows[r].line_no

\* C25: every issue row whose priority is not P0, P1 or P2 gets an
\* Invalid-priority ERROR, and every issue row whose dev_state, review state
\* or git_state is outside its enum gets the ERROR for that field, whatever
\* the other fields of the row, its id included, and the other rows hold.
C25_EnumChecksPerRow ==
    (IssuesFinished /\ file.status = "ok") =>
        \A r \in IssueRowNumbers :
            /\ Get(rows[r].obj, "priority") \notin {JStr("P0"), JStr("P1"), JStr("P2")}
                  => PriorityFlagged(r)
            /\ \A k \in 1..Len(StatusFields) :
                  ~InStrings(Get(rows[r].obj, StatusFields[k]), StatusEnums(StatusFields[k]))
                      => StatusFlagged(r, StatusFields[k])

----------------------------------------------------------------------------
(* detect_cycle: the order of the traversal. *)

\* the position of the first occurrence of x in the sequence s
IndexOf(s, x) == CHOOSE i \in DOMAIN s : s[i] = x /\ \A j \in 1..(i - 1) : s[j] # x

RECURSIVE PathSearch(_, _, _, _)
\* A depth-first search told by its path: path is the sequence of nodes from
\* the start node to the node being expanded, i the position in that node's
\* edge list, done the set of nodes expanded to the end.  The edges are taken
\* in list order; the first edge that leads back into the path closes the
\* cycle, which is the part of the path from the target on, then the target.
PathSearch(path, i, done, ed) ==
    LET n == path[Len(path)]
        targets == EdgesGet(ed, n)
    IN IF i > Len(targets) THEN [found |-> <<>>, done |-> done \cup {n}]
       ELSE IF targets[i] \in done THEN PathSearch(path, i + 1, done, ed)
       ELSE IF targets[i] \in Range(path)
       THEN [found |-> SubSeq(path, IndexOf(path, targets[i]), Len(path)) \o <<targets[i]>>,
             done |-> done]
       ELSE LET below == PathSearch(Append(path, targets[i]), 1, done, ed)
            IN IF below.found # <<>> THEN below
               ELSE PathSearch(path, i + 1, below.done, ed)

RECURSIVE FirstClosedCycle(_, _, _, _)
\* the searches started from the nodes in their order, each node that an
\* earlier search expanded being passed over: the first cycle closed, or <<>>
FirstClosedCycle(nodes, k, done, ed) ==
    IF k > Len(nodes) THEN <<>>
    ELSE IF nodes[k] \in done THEN FirstClosedCycle(nodes, k + 1, done, ed)
    ELSE LET search == PathSearch(<<nodes[k]>>, 1, done, ed)
         IN IF search.found # <<>> THEN search.found
            ELSE FirstClosedCycle(nodes, k + 1, search.done, ed)

\* a cycle can be reached from the node
ReachesCycle(ed, n) == \E m \in Closure(ed, {n}) : OnCycle(ed, m)

\* the earliest node of the caller's order from which a cycle can be reached
EarliestCyclic(nodes, ed) ==
    nodes[CHOOSE k \in DOMAIN nodes :
              /\ ReachesCycle(ed, nodes[k])
              /\ \A j \in 1..(k - 1) : ~ReachesCycle(ed, nodes[j])]

\* C26: the result of detect_cycle is that of the depth-first searches started
\* from the nodes in the caller's order with every edge list followed in list
\* order: the first cycle that this traversal closes, None when it closes
\* none; and when a cycle can be reached from a node of N, every node of the
\* returned cycle can be reached from the earliest such node.
C26_FirstCycleInCallerOrder ==
    DirectDone =>
        /\ cycle = FirstClosedCycle(dc_nodes, 1, {}, dc_edges)
        /\ CycleReachable(dc_nodes, dc_edges) =>
              /\ cycle # NoCycle
              /\ Range(cycle) \subseteq Closure(dc_edges, {EarliestCyclic(dc_nodes, dc_edges)})

\* C26 witness: node 1 has a loop on itself and lies on a cycle with node 2;
\* its edge to 2 comes first, and the cycle through 2 was returned
C26_Witness ==
    /\ DirectDone
    /\ ClosedWalk(<<"1", "1">>, dc_edges)
    /\ cycle = <<"1", "2", "1">>

----------------------------------------------------------------------------
(* detect_cycle: colours, recursion path and termination. *)

\* detect_cycle is straight-line sequential code: a call that has a next
\* step takes it
SpecCycleFair == SpecCycle /\ WF_vars(NextCycle)

\* the nodes of the frames of the recursion, outermost first
PathNodes == [i \in DOMAIN stack |-> stack[i].node]

\* the nodes that have a colour other than UNSEEN or are in N
Coloured == (DOMAIN state) \cup Range(dc_nodes)

\* the colour of every node stays or moves one step, never past DONE
ColourStep ==
    \A n \in Universe :
        \/ StateGet(state', n) = StateGet(state, n)
        \/ StateGet(state, n) = 0 /\ StateGet(state', n) = 1
        \/ StateGet(state, n) = 1 /\ StateGet(state', n) = 2

\* while the search runs, the VISITING nodes are the nodes of the recursion
\* path, each once, and parent links every node of the path to the one above
VisitingIsPath ==
    pc = "dfs" =>
        /\ {n \in Universe : StateGet(state, n) = 1} = Range(PathNodes)
        /\ \A i, j \in DOMAIN stack : stack[i].node = stack[j].node => i = j
        /\ \A i \in 2..Len(stack) :
              /\ stack[i].node \in DOMAIN parent
              /\ parent[stack[i].node] = stack[i - 1].node

\* dfs is entered at most once per node
EnteredOnce == \A n \in DOMAIN entered : entered[n] <= 1

\* a result of None leaves every node of N DONE
NoneLeavesAllDone ==
    (DirectDone /\ cycle = NoCycle) => \A n \in Range(dc_nodes) : state[n] = 2

----------------------------------------------------------------------------
(* The line numbers of the locations. *)

\* the finding names line N of the file and that line is what the finding
\* is about: the line parse_json_line rejected, the JSON object of the row,
\* or the header of the task whose id is the first value of the message
NamesItsLine(f) ==
    /\ f.line \in DOMAIN file.lines
    /\ LET l == file.lines[f.line]
       IN IF f.message = "Invalid JSON" THEN l.kind = "badjson"
          ELSE IF f.message = "JSONL line must be a JSON object"
          THEN l.kind = "json" /\ l.v.k # "obj"
          ELSE \/ l.kind = "json" /\ l.v.k = "obj"
               \/ l.kind = "task" /\ f.arg # <<>> /\ f.arg[1] = l.id

\* C28: every finding whose location has a line number names the 1-based
\* number of its line in the file: the line of the JSON row, blank lines
\* above it counted, or the line of the task header.
C28_LocationIsFileLine ==
    \A i \in DOMAIN report : report[i].line # 0 => NamesItsLine(report[i])

----------------------------------------------------------------------------
(* detect_cycle: the returned path is a simple cycle. *)

\* the nodes dfs was entered for
Reached == {n \in Universe : StateGet(state, n) # 0}

\* no value occurs twice in the sequence
NoRepeat(s) == \A i, j \in DOMAIN s : s[i] = s[j] => i = j

\* C29: a path returned by detect_cycle is a simple cycle: its first node is
\* its last, no node occurs twice apart from that, and it is at most one
\* longer than the number of distinct nodes the search reached.
C29_SimpleCycle ==
    (DirectDone /\ cycle # NoCycle) =>
        /\ Len(cycle) >= 2
        /\ cycle[1] = cycle[Len(cycle)]
        /\ NoRepeat(SubSeq(cycle, 1, Len(cycle) - 1))
        /\ Len(cycle) <= Cardinality(Reached) + 1

\* C29 witness: the search went from node 1 into a cycle of nodes 2 and 3,
\* so it reached more nodes than the cycle has
C29_Witness ==
    /\ DirectDone
    /\ cycle = <<"2", "3", "2">>
    /\ StateGet(state, "1") = 1

----------------------------------------------------------------------------
(* detect_cycle: edge targets that are not nodes of N. *)

\* the nodes that can be reached from the nodes of N
FromN == Closure(dc_edges, Range(dc_nodes))

\* some edge leads to a node that is not in N
TargetOutside == ~EdgesInside(dc_nodes, dc_edges)

\* C30: edge targets that are not in N are tolerated.  The one lookup without
\* a default, state[node] of the outer loop, is always on a key of state, so
\* no KeyError is raised; a target outside N is searched like an UNSEEN node
\* with the edges E lists for it, none when E does not list it; a cycle is
\* returned exactly when one can be reached from a node of N, nodes absent
\* from N included, and the returned cycle lies in what N reaches; a cycle
\* that no node of N reaches is not reported.
C30_TargetsOutsideN ==
    /\ (caller = "direct" /\ pc = "dfs") => Range(dc_nodes) \subseteq DOMAIN state
    /\ (DirectDone /\ TargetOutside) =>
          /\ cycle # NoCycle <=> CycleReachable(dc_nodes, dc_edges)
          /\ cycle # NoCycle => ClosedWalk(cycle, dc_edges) /\ Range(cycle) \subseteq FromN
          /\ cycle = NoCycle => \A n \in FromN : n \in DOMAIN state /\ state[n] = 2

\* C30 witness: N is node 1 alone; its first edge led to node 3, which E does
\* not list and which was searched to the end, its second to node 2, whose
\* loop on itself was returned
C30_Witness ==
    /\ DirectDone
    /\ dc_nodes = <<"1">>
    /\ cycle = <<"2", "2">>
    /\ "3" \notin DOMAIN dc_edges
    /\ "3" \in DOMAIN state /\ state["3"] = 2

====
